---- MODULE Spec2Model ----
(***************************************************************************)
(* Bitbucket -> Teams webhook bridge (src/lambda/lambda_function.py).      *)
(*                                                                         *)
(* The model follows one execution environment (one process lifetime):     *)
(* the module-level cold start that loads CONFIG / FILTER_CONFIG, the      *)
(* process-wide secret cache, and lambda_handler run stage by stage for a  *)
(* bounded number of invocations (Spec).  Two further specifications      *)
(* drive components directly: SecretSpec calls get_secret in any order     *)
(* against a store that is rotated, over several process lifetimes;        *)
(* UnitSpec makes one call of a pure component with arguments drawn from   *)
(* bounded sets.                                                           *)
(*                                                                         *)
(* Encodings                                                               *)
(*   Python str   : a tuple of lexemes, e.g. <<"repo", ":", "push">>;       *)
(*                  '' is <<>>.  Dict keys and secret identifiers, which   *)
(*                  are only ever compared whole, are plain strings.       *)
(*   JSON value   : a tagged record, [t |-> "obj", kv |-> {<<key, val>>}], *)
(*                  [t |-> "str", s |-> str], [t |-> "num", n |-> i],      *)
(*                  [t |-> "list", items |-> <<...>>], [t |-> "null"].     *)
(*   Body text    : [fmt, doc] for a JSON text of value doc written in     *)
(*                  layout fmt, [fmt |-> "b64", of |-> text] for a base64  *)
(*                  encoding, and NotJson / EmptyText.                     *)
(*   HMAC-SHA256  : the digest of (payload, secret) is the pair itself,    *)
(*                  i.e. the digest is treated as collision free.          *)
(*   A raised exception is the value [t |-> "exc", e |-> <class name>].    *)
(***************************************************************************)
EXTENDS Integers, Sequences, FiniteSets, TLC

(***************************************************************************)
(* Bounds of the model.                                                    *)
(***************************************************************************)
MaxInvocations == 2

(***************************************************************************)
(* Python values.                                                          *)
(***************************************************************************)
None == [t |-> "null"]
Exc(e) == [t |-> "exc", e |-> e]
IsExc(x) == x.t = "exc"
\* The same test for values that need not carry a tag.
Raised(x) == "t" \in DOMAIN x /\ x.t = "exc"
Str(s) == [t |-> "str", s |-> s]
Num(n) == [t |-> "num", n |-> n]
Obj(kv) == [t |-> "obj", kv |-> kv]
List(items) == [t |-> "list", items |-> items]
Bool(b) == [t |-> "bool", b |-> b]
EmptyDict == Obj({})

\* Python truthiness of a JSON value (`not x`).
Truthy(x) ==
    CASE x.t = "obj" -> x.kv # {}
      [] x.t = "str" -> x.s # <<>>
      [] x.t = "list" -> x.items # <<>>
      [] x.t = "num" -> x.n # 0
      [] x.t = "bool" -> x.b
      [] x.t = "AdaptiveCard" -> TRUE
      [] OTHER -> FALSE

HasKey(x, k) == \E p \in x.kv : p[1] = k
Lookup(x, k) == (CHOOSE p \in x.kv : p[1] = k)[2]

\* x.get(k, d): AttributeError when x is not a dict; an exception raised
\* while evaluating x propagates.
PyGet(x, k, d) ==
    IF IsExc(x) THEN x
    ELSE IF x.t # "obj" THEN Exc("AttributeError")
    ELSE IF HasKey(x, k) THEN Lookup(x, k)
    ELSE d

\* str.upper() on single lexemes of the state vocabulary.
UpperLexeme(w) ==
    CASE w \in {"failed", "Failed", "FAILED"} -> "FAILED"
      [] w \in {"stopped", "Stopped", "STOPPED"} -> "STOPPED"
      [] w \in {"error", "Error", "ERROR"} -> "ERROR"
      [] w \in {"successful", "SUCCESSFUL"} -> "SUCCESSFUL"
      [] w \in {"inprogress", "INPROGRESS"} -> "INPROGRESS"
      [] w \in {"unknown", "UNKNOWN"} -> "UNKNOWN"
      [] w \in {"open", "OPEN"} -> "OPEN"
      [] OTHER -> w

LowerLexeme(w) ==
    CASE w \in {"failed", "Failed", "FAILED"} -> "failed"
      [] w \in {"stopped", "Stopped", "STOPPED"} -> "stopped"
      [] w \in {"error", "Error", "ERROR"} -> "error"
      [] w \in {"successful", "SUCCESSFUL"} -> "successful"
      [] w \in {"inprogress", "INPROGRESS"} -> "inprogress"
      [] w \in {"unknown", "UNKNOWN"} -> "unknown"
      [] w \in {"open", "OPEN"} -> "open"
      [] OTHER -> w

UpperStr(s) == [i \in 1..Len(s) |-> UpperLexeme(s[i])]
LowerStr(s) == [i \in 1..Len(s) |-> LowerLexeme(s[i])]

\* x.upper() for a JSON value: AttributeError unless x is a str.
PyUpper(x) ==
    IF IsExc(x) THEN x
    ELSE IF x.t # "str" THEN Exc("AttributeError")
    ELSE Str(UpperStr(x.s))

\* s.startswith(p), `w in s` for a lexeme w.
StartsWith(s, p) == Len(s) >= Len(p) /\ SubSeq(s, 1, Len(p)) = p
Contains(s, w) == \E i \in 1..Len(s) : s[i] = w

\* The first exception in a statement sequence, or None.
RECURSIVE FirstExc(_)
FirstExc(xs) ==
    IF xs = <<>> THEN None
    ELSE IF IsExc(Head(xs)) THEN Head(xs)
    ELSE FirstExc(Tail(xs))

(***************************************************************************)
(* Configuration (cold start).                                             *)
(***************************************************************************)
\* os.environ.get(name) / os.environ.get(name, default); env is a set of
\* <<name, value>> pairs.
EnvHas(env, name) == \E p \in env : p[1] = name
EnvGet(env, name, d) ==
    IF EnvHas(env, name) THEN (CHOOSE p \in env : p[1] = name)[2] ELSE d

\* load_from_environment that fails only when both identifiers are missing.
load_from_environment_both_missing(env) ==
    LET teams_url_arn == EnvGet(env, "TEAMS_WEBHOOK_URL_SECRET_ARN", "")
        bitbucket_secret_arn == EnvGet(env, "BITBUCKET_SECRET_ARN", "")
    IN  IF teams_url_arn = "" /\ bitbucket_secret_arn = ""
        THEN [t |-> "exc", e |-> "ValueError",
              missing |-> <<"TEAMS_WEBHOOK_URL_SECRET_ARN", "BITBUCKET_SECRET_ARN">>]
        ELSE [teams_webhook_url_secret_arn |-> teams_url_arn,
              bitbucket_secret_arn |-> bitbucket_secret_arn,
              event_filter |-> EnvGet(env, "EVENT_FILTER", <<>>),
              filter_mode |-> EnvGet(env, "FILTER_MODE", "all")]

\* Configuration.load_from_environment: a Configuration, or ValueError.  An
\* unset required variable and one set to '' are both falsy and are both
\* read here as "".
load_from_environment(env) ==
    LET teams_url_arn == EnvGet(env, "TEAMS_WEBHOOK_URL_SECRET_ARN", "")
        bitbucket_secret_arn == EnvGet(env, "BITBUCKET_SECRET_ARN", "")
        event_filter == EnvGet(env, "EVENT_FILTER", <<>>)
        filter_mode == EnvGet(env, "FILTER_MODE", "all")
        missing_configs ==
            (IF teams_url_arn = "" THEN <<"TEAMS_WEBHOOK_URL_SECRET_ARN">> ELSE <<>>)
            \o (IF bitbucket_secret_arn = "" THEN <<"BITBUCKET_SECRET_ARN">> ELSE <<>>)
    IN  IF missing_configs # <<>>
        THEN [t |-> "exc", e |-> "ValueError", missing |-> missing_configs]
        ELSE [teams_webhook_url_secret_arn |-> teams_url_arn,
              bitbucket_secret_arn |-> bitbucket_secret_arn,
              event_filter |-> event_filter,
              filter_mode |-> filter_mode]

\* str.split(','): the pieces between "," lexemes.
RECURSIVE SplitComma(_, _)
SplitComma(s, cur) ==
    IF s = <<>> THEN <<cur>>
    ELSE IF Head(s) = "," THEN <<cur>> \o SplitComma(Tail(s), <<>>)
    ELSE SplitComma(Tail(s), Append(cur, Head(s)))

\* str.strip(): leading and trailing blank lexemes removed.
RECURSIVE LStrip(_)
LStrip(s) == IF s # <<>> /\ Head(s) = " " THEN LStrip(Tail(s)) ELSE s
RECURSIVE RStrip(_)
RStrip(s) ==
    IF s # <<>> /\ s[Len(s)] = " " THEN RStrip(SubSeq(s, 1, Len(s) - 1)) ELSE s
Strip(s) == RStrip(LStrip(s))

RECURSIVE StripNonEmpty(_)
StripNonEmpty(pieces) ==
    IF pieces = <<>> THEN <<>>
    ELSE (IF Strip(Head(pieces)) # <<>> THEN <<Strip(Head(pieces))>> ELSE <<>>)
         \o StripNonEmpty(Tail(pieces))

\* FilterConfig.from_environment
from_environment(event_filter, filter_mode) ==
    [mode |-> filter_mode,
     event_types |-> IF event_filter # <<>>
                     THEN StripNonEmpty(SplitComma(event_filter, <<>>))
                     ELSE <<>>]

(***************************************************************************)
(* Filter policy.                                                          *)
(***************************************************************************)
InList(x, xs) == \E i \in 1..Len(xs) : xs[i] = x

\* _is_deployment_event that knows the four literals only.
_is_deployment_event_listed(event_type) ==
    Bool(event_type \in { <<"repo", ":", "commit_status", "_updated">>,
                          <<"repo", ":", "commit_status", "_created">>,
                          <<"pullrequest", ":", "approved">>,
                          <<"pullrequest", ":", "unapproved">> })

_is_deployment_event(event_type) ==
    LET deployment_events == << <<"repo", ":", "commit_status", "_updated">>,
                                <<"repo", ":", "commit_status", "_created">>,
                                <<"pullrequest", ":", "approved">>,
                                <<"pullrequest", ":", "unapproved">> >>
    IN  Bool(\/ InList(event_type, deployment_events)
             \/ Contains(event_type, "pipeline")
             \/ Contains(event_type, "commit_status"))

FailureStates == {<<"FAILED">>, <<"STOPPED">>, <<"ERROR">>}

\* FilterConfig._is_failure_event: a bool, or the exception raised.
_is_failure_event(event_type, event_data) ==
    IF Contains(event_type, "commit_status")
    THEN LET commit_status == PyGet(event_data, "commit_status", EmptyDict)
             state == PyUpper(PyGet(commit_status, "state", Str(<<>>)))
         IN  IF IsExc(state) THEN state ELSE Bool(state.s \in FailureStates)
    ELSE IF event_type = <<"pullrequest", ":", "rejected">> THEN Bool(TRUE)
    ELSE IF event_type = <<"repo", ":", "commit_status", "_updated">>
    THEN IF event_data.t \in {"num", "null"} THEN Exc("TypeError")
         ELSE IF event_data.t = "obj" /\ HasKey(event_data, "commit_status")
         THEN LET status == PyUpper(PyGet(Lookup(event_data, "commit_status"),
                                          "state", Str(<<>>)))
              IN  IF IsExc(status) THEN status ELSE Bool(status.s \in FailureStates)
         ELSE Bool(FALSE)
    ELSE Bool(FALSE)

\* FilterConfig.should_process: a bool, or the exception raised.
should_process(filter_config, event_type, event_data) ==
    IF filter_config.mode = "all" THEN Bool(TRUE)
    ELSE IF filter_config.mode = "deployments" THEN _is_deployment_event(event_type)
    ELSE IF filter_config.mode = "failures" THEN _is_failure_event(event_type, event_data)
    ELSE Bool(InList(event_type, filter_config.event_types))

\* should_process_event that does not consult the policy.
should_process_event_unfiltered(event_type, event_data, filter_config) == Bool(TRUE)

should_process_event(event_type, event_data, filter_config) ==
    should_process(filter_config, event_type, event_data)

(***************************************************************************)
(* Secret store client.                                                    *)
(***************************************************************************)
\* get_secrets_client: the module-level client, created on first use.
SecretsManagerClient == [t |-> "boto3.client", service |-> "secretsmanager"]

get_secrets_client(client) == IF client = None THEN SecretsManagerClient ELSE client

\* A mapping from secret identifiers to values is a set of <<id, value>>
\* pairs, like a dict.
MapHas(m, k) == \E p \in m : p[1] = k
MapGet(m, k) == (CHOOSE p \in m : p[1] = k)[2]
\* An assignment that replaces the dict by one holding the new item only.
MapPut_Replacing(m, k, v) == {<<k, v>>}

MapPut(m, k, v) == {p \in m : p[1] # k} \cup {<<k, v>>}

\* client.get_secret_value(SecretId=arn) against the store: the reply is a
\* raised error, or a response that carries SecretString or does not.
StoreReply(store, secret_arn, failure) ==
    IF failure # "none" THEN Exc(failure)
    ELSE IF ~MapHas(store, secret_arn) THEN Exc("ClientError")
    ELSE [t |-> "resp", SecretString |-> MapGet(store, secret_arn)]

\* get_secret without the cache lookup.
get_secret_uncached(secret_arn, cache, store, failure) ==
    IF secret_arn = ""
    THEN [result |-> Exc("ValueError"), cache |-> cache, called |-> FALSE]
    ELSE LET response == StoreReply(store, secret_arn, failure)
         IN  IF IsExc(response)
             THEN [result |-> response, cache |-> cache, called |-> TRUE]
             ELSE IF response.SecretString = None
             THEN [result |-> Exc("ValueError"), cache |-> cache, called |-> TRUE]
             ELSE [result |-> response.SecretString,
                   cache |-> MapPut(cache, secret_arn, response.SecretString),
                   called |-> TRUE]

\* get_secret whose cache entries are served once and then dropped.
get_secret_expiring(secret_arn, cache, store, failure) ==
    IF secret_arn = ""
    THEN [result |-> Exc("ValueError"), cache |-> cache, called |-> FALSE]
    ELSE IF MapHas(cache, secret_arn)
    THEN [result |-> MapGet(cache, secret_arn),
          cache |-> {p \in cache : p[1] # secret_arn}, called |-> FALSE]
    ELSE LET response == StoreReply(store, secret_arn, failure)
         IN  IF IsExc(response)
             THEN [result |-> response, cache |-> cache, called |-> TRUE]
             ELSE IF response.SecretString = None
             THEN [result |-> Exc("ValueError"), cache |-> cache, called |-> TRUE]
             ELSE [result |-> response.SecretString,
                   cache |-> MapPut(cache, secret_arn, response.SecretString),
                   called |-> TRUE]

\* get_secret that re-raises every store error as ValueError.
get_secret_wrapping(secret_arn, cache, store, failure) ==
    IF secret_arn = ""
    THEN [result |-> Exc("ValueError"), cache |-> cache, called |-> FALSE]
    ELSE IF MapHas(cache, secret_arn)
    THEN [result |-> MapGet(cache, secret_arn), cache |-> cache, called |-> FALSE]
    ELSE LET response == StoreReply(store, secret_arn, failure)
         IN  IF IsExc(response) \/ response.SecretString = None
             THEN [result |-> Exc("ValueError"), cache |-> cache, called |-> TRUE]
             ELSE [result |-> response.SecretString,
                   cache |-> MapPut(cache, secret_arn, response.SecretString),
                   called |-> TRUE]

\* get_secret: result is the secret value (a JSON str) or the exception
\* raised; cache is the _cached_secrets mapping afterwards; called tells
\* whether the store was contacted.
\* get_secret whose cache is one slot: a hit returns whatever was cached
\* last, under any identifier.
get_secret_one_slot(secret_arn, cache, store, failure) ==
    IF secret_arn = ""
    THEN [result |-> Exc("ValueError"), cache |-> cache, called |-> FALSE]
    ELSE IF cache # {}
    THEN [result |-> (CHOOSE p \in cache : TRUE)[2], cache |-> cache, called |-> FALSE]
    ELSE LET response == StoreReply(store, secret_arn, failure)
         IN  IF IsExc(response)
             THEN [result |-> response, cache |-> cache, called |-> TRUE]
             ELSE IF response.SecretString = None
             THEN [result |-> Exc("ValueError"), cache |-> cache, called |-> TRUE]
             ELSE [result |-> response.SecretString,
                   cache |-> {<<secret_arn, response.SecretString>>},
                   called |-> TRUE]

get_secret(secret_arn, cache, store, failure) ==
    IF secret_arn = ""
    THEN [result |-> Exc("ValueError"), cache |-> cache, called |-> FALSE]
    ELSE IF MapHas(cache, secret_arn)
    THEN [result |-> MapGet(cache, secret_arn), cache |-> cache, called |-> FALSE]
    ELSE LET response == StoreReply(store, secret_arn, failure)
         IN  IF IsExc(response)
             THEN [result |-> response, cache |-> cache, called |-> TRUE]
             ELSE IF response.SecretString = None
             THEN [result |-> Exc("ValueError"), cache |-> cache, called |-> TRUE]
             ELSE [result |-> response.SecretString,
                   cache |-> MapPut(cache, secret_arn, response.SecretString),
                   called |-> TRUE]

\* retrieve_webhook_secret that also fetches the chat URL into the cache.
retrieve_webhook_secret_prefetching(config, cache, store, failure) ==
    LET r == get_secret(config.bitbucket_secret_arn, cache, store, failure)
        u == get_secret(config.teams_webhook_url_secret_arn, r.cache, store, failure)
    IN  [r EXCEPT !.cache = u.cache]

retrieve_webhook_secret(config, cache, store, failure) ==
    get_secret(config.bitbucket_secret_arn, cache, store, failure)

\* retrieve_teams_url that asks for the other secret.
retrieve_teams_url_other_arn(config, cache, store, failure) ==
    get_secret(config.bitbucket_secret_arn, cache, store, failure)

retrieve_teams_url(config, cache, store, failure) ==
    get_secret(config.teams_webhook_url_secret_arn, cache, store, failure)

(***************************************************************************)
(* Signature verification.                                                 *)
(***************************************************************************)
\* headers.get(name, default); headers is a set of <<name, value>> pairs.
HdrHas(headers, name) == \E p \in headers : p[1] = name
HdrGet(headers, name, d) ==
    IF HdrHas(headers, name) THEN (CHOOSE p \in headers : p[1] = name)[2] ELSE d

\* extract_signature_from_headers that accepts any `<algorithm>=` prefix.
extract_signature_any_prefix(headers) ==
    LET signature_header ==
            HdrGet(headers, "X-Hub-Signature", HdrGet(headers, "x-hub-signature", <<>>))
    IN  IF signature_header = <<>> THEN None
        ELSE Str(Tail(signature_header))

\* The signature without its 'sha256=' prefix, or None.
extract_signature_from_headers(headers) ==
    LET signature_header ==
            HdrGet(headers, "X-Hub-Signature", HdrGet(headers, "x-hub-signature", <<>>))
    IN  IF signature_header = <<>> THEN None
        ELSE IF StartsWith(signature_header, <<"sha256=">>)
        THEN Str(Tail(signature_header))
        ELSE None

\* The hex digest: one lexeme, standing for HMAC-SHA256(secret, payload).
compute_signature(payload, secret) == << [payload |-> payload, secret |-> secret] >>

\* A lexeme that holds a character outside ASCII.
NonAsciiLexeme == [text |-> "sig(e-acute)"]
IsAscii(s) == \A i \in 1..Len(s) : s[i] # NonAsciiLexeme

\* hmac.compare_digest on two str: TypeError unless both are ASCII.
compare_digest(a, b) ==
    IF IsAscii(a) /\ IsAscii(b) THEN Bool(a = b) ELSE Exc("TypeError")

\* verify_signature that checks presence only.
verify_signature_unchecked(payload, received_signature, secret) ==
    Bool(~(received_signature = <<>> \/ secret = <<>>))

verify_signature(payload, received_signature, secret) ==
    IF received_signature = <<>> \/ secret = <<>> THEN Bool(FALSE)
    ELSE compare_digest(compute_signature(payload, secret), received_signature)

\* validate_webhook_signature that takes any non-empty signature text.
validate_webhook_signature_lenient(headers, body, secret) ==
    LET signature == extract_signature_from_headers(headers)
    IN  IF signature = None
        THEN [is_valid |-> FALSE, error_msg |-> "Missing or invalid X-Hub-Signature header"]
        ELSE IF signature.s = <<>>
        THEN [is_valid |-> FALSE, error_msg |-> "Invalid signature"]
        ELSE [is_valid |-> TRUE, error_msg |-> "None"]

\* (is_valid, error_message); an exception raised on the way is caught and
\* reported in the message.
validate_webhook_signature(headers, body, secret) ==
    LET signature == extract_signature_from_headers(headers)
    IN  IF signature = None
        THEN [is_valid |-> FALSE, error_msg |-> "Missing or invalid X-Hub-Signature header"]
        ELSE LET is_valid == verify_signature(body, signature.s, secret)
             IN  IF IsExc(is_valid)
                 THEN [is_valid |-> FALSE, error_msg |-> "Signature validation failed"]
                 ELSE IF ~is_valid.b
                 THEN [is_valid |-> FALSE, error_msg |-> "Invalid signature"]
                 ELSE [is_valid |-> TRUE, error_msg |-> "None"]

(***************************************************************************)
(* Body text: base64, JSON decoding and re-serialization.                  *)
(***************************************************************************)
EmptyText == [fmt |-> "empty"]
NotJson == [fmt |-> "text"]
JsonText(fmt, doc) == [fmt |-> fmt, doc |-> doc]
B64(text) == [fmt |-> "b64", of |-> text]

\* `if body_str` that is always taken.
NonEmptyText_always(s) == TRUE

\* `if body_str`, len(body_str) > 0
NonEmptyText(s) == s # EmptyText

\* json.loads
json_loads(s) ==
    IF s.fmt \in {"compact", "pretty", "default"} THEN s.doc ELSE Exc("JSONDecodeError")

\* json.dumps(value, separators=(',', ':'))
json_dumps_compact(doc) == JsonText("compact", doc)

\* json.dumps(value), used for response bodies
json_dumps(doc) == JsonText("default", doc)

\* base64.b64decode(body_str).decode('utf-8'): the possible results.  Text
\* that is not a base64 encoding either fails (binascii.Error and
\* UnicodeDecodeError are ValueErrors) or decodes to some non-JSON text.
b64decode_utf8(s) ==
    CASE s.fmt = "b64" -> {s.of}
      [] s.fmt = "empty" -> {EmptyText}
      [] OTHER -> {Exc("ValueError"), NotJson}

(***************************************************************************)
(* Event parser.                                                           *)
(***************************************************************************)
\* x[0] for `change = changes[0]` and `commits[0]`.
PyFirst(x) ==
    CASE IsExc(x) -> x
      [] x.t = "list" -> IF x.items = <<>> THEN Exc("IndexError") ELSE x.items[1]
      [] x.t = "obj" -> Exc("KeyError")
      [] x.t = "str" -> IF x.s = <<>> THEN Exc("IndexError") ELSE Str(<<x.s[1]>>)
      [] OTHER -> Exc("TypeError")

\* x[:n] on a str (hashes, comment text); other values are not sliceable
\* into text.
PySlice(x, n) ==
    CASE IsExc(x) -> x
      [] x.t = "str" -> Str(SubSeq(x.s, 1, IF Len(x.s) < n THEN Len(x.s) ELSE n))
      [] x.t = "list" -> List(SubSeq(x.items, 1, IF Len(x.items) < n THEN Len(x.items) ELSE n))
      [] OTHER -> Exc("TypeError")

\* len(x)
PyLen(x) ==
    CASE IsExc(x) -> x
      [] x.t = "str" -> Num(Len(x.s))
      [] x.t = "list" -> Num(Len(x.items))
      [] x.t = "obj" -> Num(Cardinality(x.kv))
      [] OTHER -> Exc("TypeError")

\* An f-string: the template and the values substituted into it.
Fmt(template, args) == [t |-> "fstr", template |-> template, args |-> args]

ParsedEvent(event_category, repository, action, author, title, description, url, metadata) ==
    [t |-> "ParsedEvent", event_category |-> event_category, repository |-> repository,
     action |-> action, author |-> author, title |-> title,
     description |-> description, url |-> url, metadata |-> metadata]

\* action_map.get(event_type, event_type.split(':')[1] if ':' in event_type else 'unknown')
RECURSIVE UpToColon(_)
UpToColon(s) ==
    IF s = <<>> \/ Head(s) = ":" THEN <<>> ELSE <<Head(s)>> \o UpToColon(Tail(s))
RECURSIVE AfterFirstColon(_)
AfterFirstColon(s) ==
    IF s = <<>> THEN <<>>
    ELSE IF Head(s) = ":" THEN UpToColon(Tail(s))
    ELSE AfterFirstColon(Tail(s))

PullRequestAction(event_type) ==
    CASE event_type = <<"pullrequest", ":", "created">> -> <<"created">>
      [] event_type = <<"pullrequest", ":", "updated">> -> <<"updated">>
      [] event_type = <<"pullrequest", ":", "fulfilled">> -> <<"merged">>
      [] event_type = <<"pullrequest", ":", "rejected">> -> <<"declined">>
      [] event_type = <<"pullrequest", ":", "approved">> -> <<"approved">>
      [] event_type = <<"pullrequest", ":", "unapproved">> -> <<"unapproved">>
      [] OTHER -> IF Contains(event_type, ":") THEN AfterFirstColon(event_type)
                  ELSE <<"unknown">>

_parse_pull_request_event(body, event_type, repo_name) ==
    LET pullrequest == PyGet(body, "pullrequest", EmptyDict)
        action == PullRequestAction(event_type)
        author_info == PyGet(pullrequest, "author", EmptyDict)
        author == PyGet(author_info, "display_name",
                        PyGet(author_info, "username", Str(<<"unknown">>)))
        source == PyGet(pullrequest, "source", EmptyDict)
        destination == PyGet(pullrequest, "destination", EmptyDict)
        source_branch == PyGet(PyGet(source, "branch", EmptyDict), "name", Str(<<"unknown">>))
        target_branch == PyGet(PyGet(destination, "branch", EmptyDict), "name", Str(<<"unknown">>))
        pr_id == PyGet(pullrequest, "id", None)
        state == PyGet(pullrequest, "state", Str(<<"unknown">>))
        title == PyGet(pullrequest, "title", Str(<<"Untitled Pull Request">>))
        description == PyGet(pullrequest, "description", Str(<<>>))
        url == PyGet(PyGet(PyGet(pullrequest, "links", EmptyDict), "html", EmptyDict),
                     "href", Str(<<>>))
        raised == FirstExc(<<pullrequest, author_info, author, source, destination,
                             source_branch, target_branch, pr_id, state, title,
                             description, url>>)
    IN  IF IsExc(pullrequest) THEN pullrequest
        ELSE IF ~Truthy(pullrequest) THEN Exc("ValueError")
        ELSE IF raised # None THEN raised
        ELSE ParsedEvent("pull_request", repo_name, action, author, title, description, url,
                         [source_branch |-> source_branch, target_branch |-> target_branch,
                          pr_id |-> pr_id, state |-> state])

\* One entry of metadata['commits'].
CommitSummary(commit) ==
    LET hash == PySlice(PyGet(commit, "hash", Str(<<>>)), 8)
        message == PyGet(commit, "message", Str(<<>>))
        first_line == IF IsExc(message) THEN message
                      ELSE IF message.t # "str" THEN Exc("AttributeError")
                      ELSE message
        author == PyGet(PyGet(PyGet(commit, "author", EmptyDict), "user", EmptyDict),
                        "display_name", Str(<<"unknown">>))
        raised == FirstExc(<<hash, first_line, author>>)
    IN  IF raised # None THEN raised
        ELSE [t |-> "commit", hash |-> hash, message |-> first_line, author |-> author]

_parse_push_event(body, event_type, repo_name) ==
    LET push == PyGet(body, "push", EmptyDict)
        changes == PyGet(push, "changes", List(<<>>))
        change == PyFirst(changes)
        new_info == PyGet(change, "new", EmptyDict)
        branch_name == PyGet(new_info, "name", Str(<<"unknown">>))
        commits == PyGet(change, "commits", List(<<>>))
        commit_count == PyLen(commits)
        actor == PyGet(body, "actor", EmptyDict)
        author == PyGet(actor, "display_name", PyGet(actor, "username", Str(<<"unknown">>)))
        latest_commit == IF IsExc(commits) THEN commits
                         ELSE IF Truthy(commits) THEN PyFirst(commits) ELSE EmptyDict
        commit_url == PyGet(PyGet(PyGet(latest_commit, "links", EmptyDict), "html", EmptyDict),
                            "href", Str(<<>>))
        first5 == PySlice(commits, 5)
        summaries == IF IsExc(first5) THEN <<first5>>
                     ELSE IF first5.t = "list"
                     THEN [i \in 1..Len(first5.items) |-> CommitSummary(first5.items[i])]
                     ELSE <<Exc("AttributeError")>>
        raised == FirstExc(<<new_info, branch_name, commits, commit_count, actor, author,
                             latest_commit, commit_url>> \o summaries)
    IN  IF IsExc(push) THEN push
        ELSE IF ~Truthy(push) THEN Exc("ValueError")
        ELSE IF IsExc(changes) THEN changes
        ELSE IF ~Truthy(changes) THEN Exc("ValueError")
        ELSE IF IsExc(change) THEN change
        ELSE IF raised # None THEN raised
        ELSE ParsedEvent("push", repo_name, <<"pushed">>, author,
                         Fmt("Push to {branch_name}", <<branch_name>>),
                         Fmt("{commit_count} commit{s} pushed", <<commit_count>>),
                         commit_url,
                         [branch |-> branch_name, commit_count |-> commit_count,
                          commits |-> summaries])

_parse_comment_event(body, event_type, repo_name) ==
    LET comment == PyGet(body, "comment", EmptyDict)
        author_info == PyGet(comment, "user", EmptyDict)
        author == PyGet(author_info, "display_name",
                        PyGet(author_info, "username", Str(<<"unknown">>)))
        comment_text == PyGet(PyGet(comment, "content", EmptyDict), "raw",
                              PyGet(comment, "raw", Str(<<>>)))
        on_pr == HasKey(body, "pullrequest")
        on_commit == ~on_pr /\ HasKey(body, "commit")
        pr == IF on_pr THEN Lookup(body, "pullrequest") ELSE EmptyDict
        commit == IF on_commit THEN Lookup(body, "commit") ELSE EmptyDict
        context_type == IF on_pr THEN "pull_request" ELSE IF on_commit THEN "commit" ELSE "unknown"
        context_title ==
            IF on_pr
            THEN LET id == PyGet(pr, "id", Str(<<"unknown">>))
                     title == PyGet(pr, "title", Str(<<"Untitled">>))
                 IN  IF IsExc(id) THEN id ELSE IF IsExc(title) THEN title
                     ELSE Fmt("PR #{id}: {title}", <<id, title>>)
            ELSE IF on_commit
            THEN LET commit_hash == PySlice(PyGet(commit, "hash", Str(<<"unknown">>)), 8)
                 IN  IF IsExc(commit_hash) THEN commit_hash
                     ELSE Fmt("Commit {commit_hash}", <<commit_hash>>)
            ELSE Str(<<"Unknown">>)
        context_url ==
            IF on_pr \/ on_commit
            THEN PyGet(PyGet(PyGet(IF on_pr THEN pr ELSE commit, "links", EmptyDict),
                             "html", EmptyDict), "href", Str(<<>>))
            ELSE Str(<<>>)
        comment_id == PyGet(comment, "id", None)
        comment_length == PyLen(comment_text)
        description == PySlice(comment_text, 200)
        raised == FirstExc(<<author_info, author, comment_text, context_title, context_url,
                             comment_id, comment_length, description>>)
    IN  IF IsExc(comment) THEN comment
        ELSE IF ~Truthy(comment) THEN Exc("ValueError")
        ELSE IF raised # None THEN raised
        ELSE ParsedEvent("comment", repo_name, <<"commented">>, author,
                         Fmt("Comment on {context_title}", <<context_title>>),
                         description, context_url,
                         [context_type |-> context_type, context_title |-> context_title,
                          comment_id |-> comment_id, comment_length |-> comment_length])

CommitStatusAction(state) ==
    CASE state = <<"SUCCESSFUL">> -> <<"succeeded">>
      [] state = <<"FAILED">> -> <<"failed">>
      [] state = <<"INPROGRESS">> -> <<"in_progress">>
      [] state = <<"STOPPED">> -> <<"stopped">>
      [] OTHER -> LowerStr(state)

_parse_commit_status_event(body, event_type, repo_name) ==
    LET commit_status == PyGet(body, "commit_status", EmptyDict)
        state == PyUpper(PyGet(commit_status, "state", Str(<<"unknown">>)))
        name == PyGet(commit_status, "name", Str(<<"Build">>))
        description == PyGet(commit_status, "description", Str(<<>>))
        commit == PyGet(commit_status, "commit", EmptyDict)
        commit_hash == PySlice(PyGet(commit, "hash", Str(<<"unknown">>)), 8)
        url == PyGet(commit_status, "url", Str(<<>>))
        raised == FirstExc(<<state, name, description, commit, commit_hash, url>>)
    IN  IF IsExc(commit_status) THEN commit_status
        ELSE IF ~Truthy(commit_status) THEN Exc("ValueError")
        ELSE IF raised # None THEN raised
        ELSE LET action == CommitStatusAction(state.s)
             IN  ParsedEvent("commit_status", repo_name, action, Str(<<"System">>),
                             Fmt("{name} {action}", <<name, Str(action)>>),
                             description, url,
                             [state |-> state, commit_hash |-> commit_hash,
                              build_name |-> name, build_url |-> url])

\* parse_bitbucket_event that raises on an event type it does not know.
parse_bitbucket_event_strict(body, event_type) ==
    LET repository == PyGet(body, "repository", EmptyDict)
        repo_name == PyGet(repository, "full_name",
                           PyGet(repository, "name", Str(<<"unknown">>)))
        inner ==
            IF ~Truthy(body) THEN Exc("ValueError")
            ELSE IF IsExc(repo_name) THEN repo_name
            ELSE IF event_type \in {<<"pullrequest", ":", "comment_created">>,
                                    <<"repo", ":", "commit_comment_created">>}
            THEN _parse_comment_event(body, event_type, repo_name)
            ELSE IF StartsWith(event_type, <<"pullrequest", ":">>)
            THEN _parse_pull_request_event(body, event_type, repo_name)
            ELSE IF event_type = <<"repo", ":", "push">>
            THEN _parse_push_event(body, event_type, repo_name)
            ELSE IF event_type \in {<<"repo", ":", "commit_status", "_updated">>,
                                    <<"repo", ":", "commit_status", "_created">>}
            THEN _parse_commit_status_event(body, event_type, repo_name)
            ELSE Exc("ValueError")
    IN  IF IsExc(inner) /\ inner.e \in {"KeyError", "ValueError", "TypeError"}
        THEN Exc("ValueError")
        ELSE inner

\* parse_bitbucket_event: a ParsedEvent, None for an unsupported event type,
\* or the exception that leaves the function.
parse_bitbucket_event(body, event_type) ==
    LET repository == PyGet(body, "repository", EmptyDict)
        repo_name == PyGet(repository, "full_name",
                           PyGet(repository, "name", Str(<<"unknown">>)))
        inner ==
            IF ~Truthy(body) THEN Exc("ValueError")
            ELSE IF IsExc(repo_name) THEN repo_name
            ELSE IF event_type \in {<<"pullrequest", ":", "comment_created">>,
                                    <<"repo", ":", "commit_comment_created">>}
            THEN _parse_comment_event(body, event_type, repo_name)
            ELSE IF StartsWith(event_type, <<"pullrequest", ":">>)
            THEN _parse_pull_request_event(body, event_type, repo_name)
            ELSE IF event_type = <<"repo", ":", "push">>
            THEN _parse_push_event(body, event_type, repo_name)
            ELSE IF event_type \in {<<"repo", ":", "commit_status", "_updated">>,
                                    <<"repo", ":", "commit_status", "_created">>}
            THEN _parse_commit_status_event(body, event_type, repo_name)
            ELSE None
    IN  IF IsExc(inner) /\ inner.e \in {"KeyError", "ValueError", "TypeError"}
        THEN Exc("ValueError")
        ELSE inner

(***************************************************************************)
(* Message formatter.                                                      *)
(***************************************************************************)
\* metadata.get(key, default) on the parser's metadata mapping
MetaGet(metadata, key, d) == IF key \in DOMAIN metadata THEN metadata[key] ELSE d

\* get_event_color that looks at the category before the action.
get_event_color_category_first(event_category, action, metadata) ==
    IF event_category = "commit_status"
    THEN LET state == UpperStr(MetaGet(metadata, "state", Str(<<>>)).s)
         IN  IF state \in {<<"FAILED">>, <<"STOPPED">>, <<"ERROR">>} THEN "#DC3545"
             ELSE IF state = <<"SUCCESSFUL">> THEN "#28A745"
             ELSE "#FFC107"
    ELSE IF action \in {<<"failed">>, <<"declined">>, <<"stopped">>, <<"rejected">>}
    THEN "#DC3545"
    ELSE IF action \in {<<"merged">>, <<"succeeded">>, <<"approved">>}
    THEN "#28A745"
    ELSE IF event_category = "pull_request" THEN "#0078D4"
    ELSE IF event_category = "push" THEN "#6264A7"
    ELSE "#6C757D"

\* get_event_color whose state rule knows FAILED and STOPPED only.
get_event_color_without_error(event_category, action, metadata) ==
    IF action \in {<<"failed">>, <<"declined">>, <<"stopped">>} \/ action = <<"rejected">>
    THEN "#DC3545"
    ELSE IF action \in {<<"merged">>, <<"succeeded">>, <<"approved">>}
    THEN "#28A745"
    ELSE IF event_category = "commit_status"
    THEN LET state == UpperStr(MetaGet(metadata, "state", Str(<<>>)).s)
         IN  IF state \in {<<"FAILED">>, <<"STOPPED">>} THEN "#DC3545"
             ELSE IF state = <<"SUCCESSFUL">> THEN "#28A745"
             ELSE "#FFC107"
    ELSE IF event_category = "pull_request" THEN "#0078D4"
    ELSE IF event_category = "push" THEN "#6264A7"
    ELSE "#6C757D"

get_event_color(event_category, action, metadata) ==
    IF action \in {<<"failed">>, <<"declined">>, <<"stopped">>} \/ action = <<"rejected">>
    THEN "#DC3545"
    ELSE IF action \in {<<"merged">>, <<"succeeded">>, <<"approved">>}
    THEN "#28A745"
    ELSE IF event_category = "commit_status"
    THEN LET state == UpperStr(MetaGet(metadata, "state", Str(<<>>)).s)
         IN  IF state \in {<<"FAILED">>, <<"STOPPED">>, <<"ERROR">>} THEN "#DC3545"
             ELSE IF state = <<"SUCCESSFUL">> THEN "#28A745"
             ELSE "#FFC107"
    ELSE IF event_category = "pull_request" THEN "#0078D4"
    ELSE IF event_category = "push" THEN "#6264A7"
    ELSE "#6C757D"

_get_text_color_for_theme(theme_color) ==
    CASE theme_color = "#DC3545" -> "Attention"
      [] theme_color = "#28A745" -> "Good"
      [] theme_color = "#FFC107" -> "Warning"
      [] theme_color = "#0078D4" -> "Accent"
      [] theme_color = "#6264A7" -> "Default"
      [] theme_color = "#6C757D" -> "Default"
      [] OTHER -> "Default"

\* create_adaptive_card_data: the base fields; the category-specific
\* facts are the parser's metadata.
create_adaptive_card_data(parsed_event) ==
    [title |-> parsed_event.title,
     subtitle |-> Fmt("by {author}", <<parsed_event.author>>),
     repository |-> parsed_event.repository,
     action |-> parsed_event.action,
     author |-> parsed_event.author,
     event_category |-> parsed_event.event_category,
     description |-> parsed_event.description,
     url |-> parsed_event.url,
     facts |-> parsed_event.metadata]

\* format_teams_message: the Adaptive Card, or ValueError.
format_teams_message(parsed_event) ==
    IF parsed_event = None THEN Exc("ValueError")
    ELSE IF ~Truthy(parsed_event.repository) THEN Exc("ValueError")
    ELSE LET card_data == create_adaptive_card_data(parsed_event)
             theme_color == get_event_color(parsed_event.event_category,
                                            parsed_event.action, parsed_event.metadata)
         IN  [t |-> "AdaptiveCard", version |-> "1.4",
              title |-> card_data.title,
              color |-> _get_text_color_for_theme(theme_color),
              subtitle |-> card_data.subtitle,
              repository |-> card_data.repository,
              event_category |-> card_data.event_category,
              facts |-> card_data.facts,
              url |-> card_data.url]

(***************************************************************************)
(* Chat client.                                                            *)
(***************************************************************************)
\* post_to_teams: http is what http.request(...) does when it is called, a
\* response status or a raised transport error.  success is the returned
\* bool, requests the POSTs issued.
Skipped == [t |-> "skip"]

\* x[i], counting from 0.
PyItem(x, i) ==
    CASE x.t = "list" -> x.items[i + 1]
      [] x.t = "str" -> Str(<<x.s[i + 1]>>)
      [] OTHER -> Exc("KeyError")

\* One step of the title lookup: `if x.get(key) and len(x[key]) > i`, then
\* x[key][i]; Skipped when the guard is false, the exception when a step
\* raises.
Descend(x, key, i) ==
    IF x.t \in {"exc", "skip"} THEN x
    ELSE LET v == PyGet(x, key, None)
         IN  IF IsExc(v) THEN v
             ELSE IF ~Truthy(v) THEN Skipped
             ELSE IF IsExc(PyLen(v)) THEN PyLen(v)
             ELSE IF PyLen(v).n <= i THEN Skipped
             ELSE PyItem(v, i)

\* The title read from the card for the log line: the card built by
\* format_teams_message has one; any other dict is searched for it.
card_title(adaptive_card) ==
    IF adaptive_card.t = "AdaptiveCard" THEN adaptive_card.title
    ELSE LET title_block ==
                 Descend(Descend(Descend(Descend(adaptive_card, "body", 0),
                                         "items", 0), "columns", 1), "items", 0)
         IN  IF title_block.t = "exc" THEN title_block
             ELSE IF title_block.t = "skip" THEN Str(<<"Unknown">>)
             ELSE PyGet(title_block, "text", Str(<<"Unknown">>))

\* post_to_teams that tries the POST a second time when the first fails.
post_to_teams_retrying(adaptive_card, webhook_url, http) ==
    IF ~Truthy(adaptive_card) \/ ~Truthy(webhook_url) \/ IsExc(card_title(adaptive_card))
    THEN [success |-> FALSE, requests |-> <<>>]
    ELSE LET sent == <<[method |-> "POST", url |-> webhook_url,
                        body |-> json_dumps([type |-> "message",
                                             attachments |-> <<[contentType |-> "application/vnd.microsoft.card.adaptive",
                                                                content |-> adaptive_card]>>]),
                        timeout |-> 10]>>
         IN  IF ~IsExc(http) /\ http.status \in {200, 202}
             THEN [success |-> TRUE, requests |-> sent]
             ELSE [success |-> FALSE, requests |-> sent \o sent]

post_to_teams(adaptive_card, webhook_url, http) ==
    IF ~Truthy(adaptive_card) THEN [success |-> FALSE, requests |-> <<>>]
    ELSE IF ~Truthy(webhook_url) THEN [success |-> FALSE, requests |-> <<>>]
    ELSE LET payload == [type |-> "message",
                         attachments |-> <<[contentType |-> "application/vnd.microsoft.card.adaptive",
                                            content |-> adaptive_card]>>]
             sent == <<[method |-> "POST", url |-> webhook_url,
                        body |-> json_dumps(payload), timeout |-> 10]>>
         IN  IF IsExc(card_title(adaptive_card)) THEN [success |-> FALSE, requests |-> <<>>]
             ELSE IF IsExc(http) THEN [success |-> FALSE, requests |-> sent]
             ELSE [success |-> http.status \in {200, 202}, requests |-> sent]

(***************************************************************************)
(* Inputs: process environments, the secret store, request envelopes.      *)
(***************************************************************************)
TeamsArn == "arn:aws:secretsmanager:secret:teams-url"
BitbucketArn == "arn:aws:secretsmanager:secret:webhook-secret"

\* EVENT_FILTER=" pullrequest:created, ,repo:push"
ExplicitFilter == <<" ", "pullrequest", ":", "created", ",", " ", ",", "repo", ":", "push">>

Environments ==
    LET arns == {<<"TEAMS_WEBHOOK_URL_SECRET_ARN", TeamsArn>>,
                 <<"BITBUCKET_SECRET_ARN", BitbucketArn>>}
    IN  { arns,
          arns \cup {<<"FILTER_MODE", "deployments">>},
          arns \cup {<<"FILTER_MODE", "failures">>},
          arns \cup {<<"FILTER_MODE", "explicit">>, <<"EVENT_FILTER", ExplicitFilter>>},
          arns \cup {<<"FILTER_MODE", "explicit">>},
          {<<"BITBUCKET_SECRET_ARN", BitbucketArn>>, <<"FILTER_MODE", "all">>},
          {<<"TEAMS_WEBHOOK_URL_SECRET_ARN", TeamsArn>>, <<"BITBUCKET_SECRET_ARN", "">>},
          {} }

SigningSecret == <<"s3cr3t">>
TeamsUrl == <<"https://teams.example/workflow">>

\* The secret store: identifier -> SecretString, None for a secret that
\* has no string payload (the store holds no empty SecretString).
HealthyStore == {<<BitbucketArn, Str(SigningSecret)>>, <<TeamsArn, Str(TeamsUrl)>>}

Stores ==
    { HealthyStore,
      {<<BitbucketArn, None>>, <<TeamsArn, Str(TeamsUrl)>>},
      {<<BitbucketArn, Str(SigningSecret)>>, <<TeamsArn, None>>} }

\* A process: its environment and the secret store it talks to.  Every
\* environment runs against the healthy store, and the default environment
\* against every store.
Deployments ==
    { <<env, HealthyStore>> : env \in Environments }
    \cup { << {<<"TEAMS_WEBHOOK_URL_SECRET_ARN", TeamsArn>>,
               <<"BITBUCKET_SECRET_ARN", BitbucketArn>>}, st >> : st \in Stores }

\* What a call to the store can raise ("none": it answers).
StoreFailures == {"none", "ClientError", "EndpointConnectionError"}

\* What the chat webhook POST can do.
HttpOutcomes == {[t |-> "http", status |-> 200], [t |-> "http", status |-> 202],
                 [t |-> "http", status |-> 400], [t |-> "http", status |-> 500],
                 Exc("MaxRetryError")}

\* Elapsed milliseconds of an invocation.
Durations == {12, 345}

\* The Lambda context, or None.
LambdaContext == [aws_request_id |-> <<"req-1">>]

EventTypes ==
    { <<>>,
      <<"pullrequest", ":", "created">>,
      <<"pullrequest", ":", "rejected">>,
      <<"pullrequest", ":", "approved">>,
      <<"pullrequest", ":", "comment_created">>,
      <<"repo", ":", "push">>,
      <<"repo", ":", "commit_status", "_updated">>,
      <<"repo", ":", "commit_status", "_created">>,
      <<"repo", ":", "fork">>,
      <<"build", ":", "pipeline", "_finished">> }

Repo == <<"repository", Obj({<<"full_name", Str(<<"user/test-repo">>)>>})>>
Links == <<"links", Obj({<<"html", Obj({<<"href", Str(<<"https://bitbucket.org/x">>)>>})>>})>>

PullRequest ==
    Obj({<<"id", Num(7)>>, <<"title", Str(<<"Add new feature">>)>>,
         <<"state", Str(<<"OPEN">>)>>,
         <<"author", Obj({<<"display_name", Str(<<"John Doe">>)>>})>>,
         <<"source", Obj({<<"branch", Obj({<<"name", Str(<<"feature/new-feature">>)>>})>>})>>,
         <<"destination", Obj({<<"branch", Obj({<<"name", Str(<<"main">>)>>})>>})>>,
         Links})

Commit == Obj({<<"hash", Str(<<"abcdef12">>)>>, <<"message", Str(<<"Fix bug">>)>>, Links})

Push(changes) == Obj({<<"changes", changes>>})

CommitStatus(state) ==
    Obj({<<"state", state>>, <<"name", Str(<<"Pipeline">>)>>,
         <<"url", Str(<<"https://bitbucket.org/b/1">>)>>,
         <<"commit", Obj({<<"hash", Str(<<"abcdef12">>)>>})>>})

\* Decoded webhook bodies.
Docs ==
    { EmptyDict,
      List(<<Num(1)>>),
      Obj({Repo, <<"pullrequest", PullRequest>>}),
      Obj({<<"pullrequest", Obj({<<"id", Num(7)>>})>>}),
      Obj({Repo, <<"pullrequest", Str(<<"oops">>)>>}),
      Obj({Repo, <<"pullrequest", Obj({<<"author", None>>})>>}),
      Obj({<<"repository", Obj({<<"full_name", Str(<<>>)>>})>>, <<"pullrequest", PullRequest>>}),
      Obj({<<"repository", Str(<<"user/test-repo">>)>>, <<"pullrequest", PullRequest>>}),
      Obj({Repo}),
      Obj({Repo, <<"actor", Obj({<<"username", Str(<<"jdoe">>)>>})>>,
           <<"push", Push(List(<<Obj({<<"new", Obj({<<"name", Str(<<"main">>)>>})>>,
                                      <<"commits", List(<<Commit>>)>>})>>))>>}),
      Obj({Repo, <<"push", Push(List(<<>>))>>}),
      Obj({Repo, <<"push", Push(Obj({<<"new", EmptyDict>>}))>>}),
      Obj({Repo, <<"comment", Obj({<<"id", Num(3)>>,
                                   <<"content", Obj({<<"raw", Str(<<"Looks good">>)>>})>>})>>,
           <<"pullrequest", PullRequest>>}),
      Obj({Repo, <<"comment", Obj({<<"raw", Num(5)>>})>>}),
      Obj({Repo, <<"commit_status", CommitStatus(Str(<<"FAILED">>))>>}),
      Obj({Repo, <<"commit_status", CommitStatus(Str(<<"Failed">>))>>}),
      Obj({Repo, <<"commit_status", CommitStatus(Str(<<"error">>))>>}),
      Obj({Repo, <<"commit_status", CommitStatus(Str(<<"SUCCESSFUL">>))>>}),
      Obj({Repo, <<"commit_status", CommitStatus(Str(<<"INPROGRESS">>))>>}),
      Obj({Repo, <<"commit_status", CommitStatus(Num(1))>>}),
      Obj({Repo, <<"commit_status", Obj({<<"state", Str(<<"STOPPED">>)>>,
                                         <<"commit", Obj({<<"hash", Num(1)>>})>>})>>}) }

WellFormedPullRequest == Obj({Repo, <<"pullrequest", PullRequest>>})

\* The keys a sender may have signed with.
SenderKeys == {SigningSecret, <<"wr0ng">>, <<>>}

\* X-Hub-Signature values a sender may attach to a request whose body text
\* is `text`: signed over that text or over the compact form of its JSON
\* (the empty body counting as {}).
SignedTexts(text) ==
    {text} \cup (IF text = EmptyText THEN {json_dumps_compact(EmptyDict)}
                 ELSE IF IsExc(json_loads(text)) THEN {}
                 ELSE {json_dumps_compact(json_loads(text))})

SignatureValues(text) ==
    { <<>>, <<"sha256=">> }
    \cup { <<"sha1=">> \o compute_signature(text, SigningSecret) }
    \cup { <<"sha256=">> \o compute_signature(p, k) : p \in SignedTexts(text), k \in SenderKeys }

\* How the gateway spells the two header names.
HeaderCasings ==
    { [event_key |-> "X-Event-Key", signature |-> "X-Hub-Signature"],
      [event_key |-> "x-event-key", signature |-> "x-hub-signature"],
      [event_key |-> "X-EVENT-KEY", signature |-> "X-HUB-SIGNATURE"] }

\* A header that is not sent.
Absent == <<"(absent)">>

\* A header map: event-key and signature headers, each present or absent.
Headers(casing, event_type, sig) ==
    (IF event_type = Absent THEN {} ELSE {<<casing.event_key, event_type>>})
    \cup (IF sig = Absent THEN {} ELSE {<<casing.signature, sig>>})

\* An API Gateway proxy event: a dict with optional keys; flag is "true",
\* "false" or "absent".
Envelope(headers, body, flag) ==
    {<<"headers", headers>>}
    \cup (IF body = None THEN {} ELSE {<<"body", body>>})
    \cup (IF flag = "absent" THEN {} ELSE {<<"isBase64Encoded", flag = "true">>})

Canonical == [event_key |-> "X-Event-Key", signature |-> "X-Hub-Signature"]

\* Requests that vary the event type and the payload, properly signed.
PayloadRequests ==
    { Envelope(Headers(Canonical, et,
                       <<"sha256=">> \o compute_signature(JsonText("compact", d), SigningSecret)),
               JsonText("compact", d), "absent") :
        et \in EventTypes, d \in Docs }

\* Body texts as they may arrive, with the text the sender signed.
BodyTexts ==
    LET compact == JsonText("compact", WellFormedPullRequest)
        pretty == JsonText("pretty", WellFormedPullRequest)
    IN  { [body |-> compact, signed |-> compact, flag |-> "false"],
          [body |-> pretty, signed |-> pretty, flag |-> "absent"],
          [body |-> B64(pretty), signed |-> pretty, flag |-> "true"],
          [body |-> B64(NotJson), signed |-> NotJson, flag |-> "true"],
          [body |-> compact, signed |-> compact, flag |-> "true"],
          [body |-> NotJson, signed |-> NotJson, flag |-> "false"],
          [body |-> EmptyText, signed |-> EmptyText, flag |-> "false"],
          [body |-> None, signed |-> JsonText("compact", EmptyDict), flag |-> "absent"] }

\* Requests that vary the envelope and the signature.
EnvelopeRequests ==
    UNION { { Envelope(Headers(Canonical, et, sig), b.body, b.flag) :
                et \in {Absent, <<"pullrequest", ":", "created">>},
                sig \in SignatureValues(b.signed) \cup {Absent} } : b \in BodyTexts }
    \cup { {<<"body", JsonText("compact", WellFormedPullRequest)>>} }

\* Requests that vary the spelling of the header names.
CasingRequests ==
    LET text == JsonText("compact", WellFormedPullRequest)
    IN  { Envelope(Headers(c, <<"pullrequest", ":", "created">>, sig), text, "false") :
            c \in HeaderCasings,
            sig \in {<<"sha256=">> \o compute_signature(text, k) : k \in SenderKeys} }

Requests == PayloadRequests \cup EnvelopeRequests \cup CasingRequests

\* The (event, context) pairs the handler is invoked with: every request
\* under a Lambda context, and some without one.
Invocations ==
    { <<event, LambdaContext>> : event \in Requests }
    \cup { <<event, None>> : event \in CasingRequests }

(***************************************************************************)
(* State.                                                                  *)
(***************************************************************************)
VARIABLES
    environ,          \* os.environ at cold start
    CONFIG,           \* module-level Configuration, or None
    FILTER_CONFIG,    \* module-level FilterConfig, or None
    _cached_secrets,  \* process-wide secret cache
    _secrets_client,  \* module-level Secrets Manager client, or None
    store,            \* the remote secret store
    store_log,        \* identifiers requested from the store, process lifetime
    invocations,      \* handler invocations started in this process
    pc,               \* position of the current invocation
    request,          \* `event` argument of the current invocation
    locals,           \* local variables of lambda_handler
    calls,            \* components invoked by the current invocation, in order
    metrics,          \* metric records emitted by the current invocation
    response,         \* value returned by the current invocation, or None
    journal           \* finished invocations as their callers saw them

vars == <<environ, CONFIG, FILTER_CONFIG, _cached_secrets, _secrets_client, store,
          store_log, invocations, pc, request, locals, calls, metrics, response, journal>>

process == <<environ, CONFIG, FILTER_CONFIG, store>>

NoLocals ==
    [request_id |-> <<>>, headers |-> {}, body_str |-> None, event_type |-> <<>>,
     signature |-> <<>>, body |-> None, webhook_secret |-> None, is_valid |-> FALSE,
     parsed_event |-> None, teams_message |-> None, teams_url |-> None,
     success |-> FALSE]

Call(fn, arg) == [fn |-> fn, arg |-> arg]

(***************************************************************************)
(* Metrics emitter.                                                        *)
(***************************************************************************)
emit_metric(metric_name, value, unit, namespace, dimensions) ==
    [name |-> metric_name, value |-> value, unit |-> unit,
     namespace |-> namespace, dimensions |-> dimensions]

\* event_type.replace(':', '-')
ReplaceColon(s) == [i \in 1..Len(s) |-> IF s[i] = ":" THEN "-" ELSE s[i]]

emit_event_type_metric(event_type) ==
    emit_metric(<<"EventType-">> \o ReplaceColon(event_type), 1, "Count",
                "BitbucketTeamsWebhook/EventTypes", {<<"EventType", event_type>>})
emit_signature_failure ==
    emit_metric(<<"SignatureVerificationFailures">>, 1, "Count", "BitbucketTeamsWebhook", {})
\* emit_teams_api_failure under the name of another counter.
emit_teams_api_failure_misnamed ==
    emit_metric(<<"SignatureVerificationFailures">>, 1, "Count", "BitbucketTeamsWebhook", {})
emit_teams_api_failure ==
    emit_metric(<<"TeamsAPIFailures">>, 1, "Count", "BitbucketTeamsWebhook", {})
\* emit_unsupported_event under the name of the signature counter.
emit_unsupported_event_as_signature_failure ==
    emit_metric(<<"SignatureVerificationFailures">>, 1, "Count", "BitbucketTeamsWebhook", {})
emit_unsupported_event ==
    emit_metric(<<"UnsupportedEventTypes">>, 1, "Count", "BitbucketTeamsWebhook", {})
emit_processing_duration(duration_ms) ==
    emit_metric(<<"ProcessingDuration">>, duration_ms, "Milliseconds", "BitbucketTeamsWebhook", {})

(***************************************************************************)
(* Cold start.                                                             *)
(***************************************************************************)
\* The module-level try/except around configuration loading.
\* The module-level try block with FilterConfig built only when FILTER_MODE
\* is set in the environment.
ColdStartConfig_FilterOnDemand(env) ==
    LET loaded == load_from_environment(env)
    IN  IF Raised(loaded)
        THEN [CONFIG |-> None, FILTER_CONFIG |-> None]
        ELSE [CONFIG |-> loaded,
              FILTER_CONFIG |-> IF EnvHas(env, "FILTER_MODE")
                                THEN from_environment(loaded.event_filter, loaded.filter_mode)
                                ELSE None]

ColdStartConfig(env) ==
    LET loaded == load_from_environment(env)
    IN  IF Raised(loaded)
        THEN [CONFIG |-> None, FILTER_CONFIG |-> None]
        ELSE [CONFIG |-> loaded,
              FILTER_CONFIG |-> from_environment(loaded.event_filter, loaded.filter_mode)]

Init ==
    /\ \E deployment \in Deployments :
         /\ environ = deployment[1]
         /\ store = deployment[2]
    /\ CONFIG = ColdStartConfig(environ).CONFIG
    /\ FILTER_CONFIG = ColdStartConfig(environ).FILTER_CONFIG
    /\ _cached_secrets = {}
    /\ _secrets_client = None
    /\ store_log = <<>>
    /\ invocations = 0
    /\ pc = "idle"
    /\ request = {}
    /\ locals = NoLocals
    /\ calls = <<>>
    /\ metrics = <<>>
    /\ response = None
    /\ journal = <<>>

(***************************************************************************)
(* lambda_handler, stage by stage.                                         *)
(***************************************************************************)
EvHas(event, key) == \E p \in event : p[1] = key
EvGet(event, key, d) == IF EvHas(event, key) THEN (CHOOSE p \in event : p[1] = key)[2] ELSE d

Response(status, body) == [statusCode |-> status, body |-> json_dumps(body)]

\* lambda_handler's except clauses without the final `except Exception`.
CatchAll_NoDefault(exc) ==
    CASE exc.e = "JSONDecodeError" -> Response(400, [error |-> "Invalid JSON payload"])
      [] exc.e = "ValueError" -> Response(400, [error |-> "Bad request"])
      [] exc.e = "KeyError" -> Response(400, [error |-> "Missing required field in payload"])
      [] exc.e = "TypeError" -> Response(400, [error |-> "Invalid data type in payload"])
      [] exc.e \in {"ConnectionError", "TimeoutError"} ->
            Response(500, [error |-> "Service temporarily unavailable"])
      [] exc.e = "ClientError" -> Response(500, [error |-> "Service configuration error"])
      [] OTHER -> exc

\* lambda_handler's except clauses without `except TypeError`: a TypeError
\* falls through to `except Exception`.
CatchAll_NoTypeError(exc) ==
    CASE exc.e = "JSONDecodeError" -> Response(400, [error |-> "Invalid JSON payload"])
      [] exc.e = "ValueError" -> Response(400, [error |-> "Bad request"])
      [] exc.e = "KeyError" -> Response(400, [error |-> "Missing required field in payload"])
      [] exc.e \in {"ConnectionError", "TimeoutError"} ->
            Response(500, [error |-> "Service temporarily unavailable"])
      [] exc.e = "ClientError" -> Response(500, [error |-> "Service configuration error"])
      [] OTHER -> Response(500, [error |-> "Internal server error"])

\* The except clauses that close lambda_handler's try block, the last of
\* which is `except Exception`.
CatchAll(exc) ==
    CASE exc.e = "JSONDecodeError" -> Response(400, [error |-> "Invalid JSON payload"])
      [] exc.e = "ValueError" -> Response(400, [error |-> "Bad request"])
      [] exc.e = "KeyError" -> Response(400, [error |-> "Missing required field in payload"])
      [] exc.e = "TypeError" -> Response(400, [error |-> "Invalid data type in payload"])
      [] exc.e \in {"ConnectionError", "TimeoutError"} ->
            Response(500, [error |-> "Service temporarily unavailable"])
      [] exc.e = "ClientError" -> Response(500, [error |-> "Service configuration error"])
      [] OTHER -> Response(500, [error |-> "Internal server error"])

\* The invocation ends: `return resp`, or, when resp is an exception that
\* no except clause took, the exception leaves lambda_handler.
Return(resp) ==
    IF Raised(resp)
    THEN /\ response' = None
         /\ pc' = "raised"
    ELSE /\ response' = resp
         /\ pc' = "done"

Invoke ==
    /\ pc = "idle"
    /\ invocations < MaxInvocations
    /\ \E inv \in Invocations :
        LET event == inv[1]
            context == inv[2]
        IN  /\ request' = event
            /\ locals' = [NoLocals EXCEPT !.request_id =
                             IF context # None THEN context.aws_request_id
                             ELSE <<"unknown">>]
    /\ invocations' = invocations + 1
    /\ pc' = "start"
    /\ calls' = <<>>
    /\ metrics' = <<>>
    /\ response' = None
    /\ UNCHANGED <<process, _cached_secrets, _secrets_client, store_log, journal>>

Start ==
    /\ pc = "start"
    /\ IF CONFIG = None
       THEN Return(Response(500, [error |-> "Server configuration error"]))
       ELSE pc' = "decode" /\ UNCHANGED response
    /\ UNCHANGED <<process, _cached_secrets, _secrets_client, store_log, invocations,
                   request, locals, calls, metrics, journal>>

Decode ==
    /\ pc = "decode"
    /\ LET headers == EvGet(request, "headers", {})
           raw == EvGet(request, "body", JsonText("compact", EmptyDict))
           is_base64_encoded == EvGet(request, "isBase64Encoded", FALSE)
           event_type == HdrGet(headers, "X-Event-Key", HdrGet(headers, "x-event-key", <<>>))
           signature == HdrGet(headers, "X-Hub-Signature", HdrGet(headers, "x-hub-signature", <<>>))
       IN  \E body_str \in (IF is_base64_encoded THEN b64decode_utf8(raw) ELSE {raw}) :
             IF Raised(body_str)
             THEN /\ Return(CatchAll(body_str))
                  /\ UNCHANGED <<locals, metrics>>
             ELSE /\ locals' = [locals EXCEPT !.headers = headers, !.body_str = body_str,
                                              !.event_type = event_type,
                                              !.signature = signature]
                  /\ metrics' = IF event_type # <<>>
                                THEN Append(metrics, emit_event_type_metric(event_type))
                                ELSE metrics
                  /\ pc' = "parse_json"
                  /\ UNCHANGED response
    /\ UNCHANGED <<process, _cached_secrets, _secrets_client, store_log, invocations,
                   request, calls, journal>>

ParseJSON ==
    /\ pc = "parse_json"
    /\ LET body == IF NonEmptyText(locals.body_str) THEN json_loads(locals.body_str)
                   ELSE EmptyDict
       IN  IF IsExc(body)
           THEN /\ Return(Response(400, [error |-> "Invalid JSON payload"]))
                /\ UNCHANGED locals
           ELSE /\ locals' = [locals EXCEPT !.body = body]
                /\ pc' = "retrieve_secret"
                /\ UNCHANGED response
    /\ UNCHANGED <<process, _cached_secrets, _secrets_client, store_log, invocations,
                   request, calls, metrics, journal>>

\* The same clause narrowed to `except ClientError`: anything else reaches
\* the handler's closing except clauses.
SecretFailure_ClientErrorOnly(exc) ==
    IF exc.e = "ClientError" THEN Response(500, [error |-> "Server configuration error"])
    ELSE CatchAll(exc)

\* `except Exception` around retrieve_webhook_secret / retrieve_teams_url.
SecretFailure(exc) == Response(500, [error |-> "Server configuration error"])

\* The bookkeeping of one get_secret call made by the handler.
SecretCall(r, arn) ==
    /\ _cached_secrets' = r.cache
    /\ _secrets_client' = IF r.called THEN get_secrets_client(_secrets_client)
                          ELSE _secrets_client
    /\ store_log' = IF r.called THEN Append(store_log, arn) ELSE store_log
    /\ calls' = calls \o <<Call("get_secret", arn)>>
                      \o (IF r.called THEN <<Call("get_secret_value", arn)>> ELSE <<>>)

RetrieveSigningSecret ==
    /\ pc = "retrieve_secret"
    /\ \E failure \in StoreFailures :
         LET r == retrieve_webhook_secret(CONFIG, _cached_secrets, store, failure)
         IN  /\ SecretCall(r, CONFIG.bitbucket_secret_arn)
             /\ IF IsExc(r.result)
                THEN /\ Return(SecretFailure(r.result))
                     /\ UNCHANGED locals
                ELSE /\ locals' = [locals EXCEPT !.webhook_secret = r.result]
                     /\ pc' = "verify"
                     /\ UNCHANGED response
    /\ UNCHANGED <<process, invocations, request, metrics, journal>>

VerifySignature ==
    /\ pc = "verify"
    /\ LET secret == locals.webhook_secret.s
           first == validate_webhook_signature(locals.headers, locals.body_str, secret)
           parsed_json == json_loads(locals.body_str)
           minified_body == json_dumps_compact(parsed_json)
           retry == ~first.is_valid /\ ~IsExc(parsed_json)
           second == validate_webhook_signature(locals.headers, minified_body, secret)
           is_valid == IF retry THEN second.is_valid ELSE first.is_valid
       IN  /\ calls' = calls \o <<Call("validate_webhook_signature", locals.body_str)>>
                             \o (IF retry
                                 THEN <<Call("validate_webhook_signature", minified_body)>>
                                 ELSE <<>>)
           /\ IF ~is_valid
              THEN /\ metrics' = Append(metrics, emit_signature_failure)
                   /\ Return(Response(401, [error |-> "Unauthorized"]))
                   /\ UNCHANGED locals
              ELSE /\ locals' = [locals EXCEPT !.is_valid = TRUE,
                                               !.body_str = IF retry THEN minified_body
                                                            ELSE locals.body_str]
                   /\ pc' = "filter"
                   /\ UNCHANGED <<metrics, response>>
    /\ UNCHANGED <<process, _cached_secrets, _secrets_client, store_log, invocations,
                   request, journal>>

\* lambda_handler without the early return on a rejected event: the event
\* goes on to the parser whatever the filter decides.
Filter_NoEarlyReturn ==
    /\ pc = "filter"
    /\ calls' = Append(calls, Call("should_process_event", locals.event_type))
    /\ pc' = "parse_event"
    /\ UNCHANGED <<process, _cached_secrets, _secrets_client, store_log, invocations,
                   request, locals, metrics, response, journal>>

Filter ==
    /\ pc = "filter"
    /\ IF FILTER_CONFIG = None
       THEN /\ Return(Response(500, [error |-> "Server configuration error"]))
            /\ UNCHANGED calls
       ELSE LET decision == should_process_event(locals.event_type, locals.body,
                                                       FILTER_CONFIG)
            IN  /\ calls' = Append(calls, Call("should_process_event", locals.event_type))
                /\ IF IsExc(decision)
                   THEN Return(CatchAll(decision))
                   ELSE IF ~decision.b
                   THEN Return(Response(200, [message |-> "Event filtered, not processed",
                                              event_type |-> locals.event_type,
                                              request_id |-> locals.request_id]))
                   ELSE pc' = "parse_event" /\ UNCHANGED response
    /\ UNCHANGED <<process, _cached_secrets, _secrets_client, store_log, invocations,
                   request, locals, metrics, journal>>

ParseEvent ==
    /\ pc = "parse_event"
    /\ LET parsed_event == parse_bitbucket_event(locals.body, locals.event_type)
       IN  /\ calls' = Append(calls, Call("parse_bitbucket_event", locals.event_type))
           /\ IF parsed_event = None
              THEN /\ metrics' = Append(metrics, emit_unsupported_event)
                   /\ Return(Response(200, [message |-> "Unsupported event type, not processed",
                                            event_type |-> locals.event_type,
                                            request_id |-> locals.request_id]))
                   /\ UNCHANGED locals
              ELSE IF IsExc(parsed_event)
              THEN /\ Return(IF parsed_event.e = "ValueError"
                             THEN Response(400, [error |-> "Malformed event payload"])
                             ELSE CatchAll(parsed_event))
                   /\ UNCHANGED <<locals, metrics>>
              ELSE /\ locals' = [locals EXCEPT !.parsed_event = parsed_event]
                   /\ pc' = "format"
                   /\ UNCHANGED <<metrics, response>>
    /\ UNCHANGED <<process, _cached_secrets, _secrets_client, store_log, invocations,
                   request, journal>>

Format ==
    /\ pc = "format"
    /\ LET teams_message == format_teams_message(locals.parsed_event)
       IN  /\ calls' = Append(calls, Call("format_teams_message", locals.parsed_event.event_category))
           /\ IF IsExc(teams_message)
              THEN /\ Return(IF teams_message.e = "ValueError"
                             THEN Response(400, [error |-> "Failed to format message"])
                             ELSE CatchAll(teams_message))
                   /\ UNCHANGED locals
              ELSE /\ locals' = [locals EXCEPT !.teams_message = teams_message]
                   /\ pc' = "retrieve_url"
                   /\ UNCHANGED response
    /\ UNCHANGED <<process, _cached_secrets, _secrets_client, store_log, invocations,
                   request, metrics, journal>>

RetrieveChatUrl ==
    /\ pc = "retrieve_url"
    /\ \E failure \in StoreFailures :
         LET r == retrieve_teams_url(CONFIG, _cached_secrets, store, failure)
         IN  /\ SecretCall(r, CONFIG.teams_webhook_url_secret_arn)
             /\ IF IsExc(r.result)
                THEN /\ Return(SecretFailure(r.result))
                     /\ UNCHANGED locals
                ELSE /\ locals' = [locals EXCEPT !.teams_url = r.result]
                     /\ pc' = "post"
                     /\ UNCHANGED response
    /\ UNCHANGED <<process, invocations, request, metrics, journal>>

Post ==
    /\ pc = "post"
    /\ \E http \in HttpOutcomes :
         LET r == post_to_teams(locals.teams_message, locals.teams_url, http)
         IN  /\ calls' = calls \o <<Call("post_to_teams", locals.teams_url)>>
                               \o [i \in 1..Len(r.requests) |-> Call("http.request", r.requests[i])]
             /\ locals' = [locals EXCEPT !.success = r.success]
             /\ IF ~r.success
                THEN /\ metrics' = Append(metrics, emit_teams_api_failure)
                     /\ Return(Response(500, [error |-> "Failed to post to Teams"]))
                ELSE /\ pc' = "success"
                     /\ UNCHANGED <<metrics, response>>
    /\ UNCHANGED <<process, _cached_secrets, _secrets_client, store_log, invocations,
                   request, journal>>

\* The success reply with the chat webhook URL echoed in the body.
Success_EchoingUrl ==
    /\ pc = "success"
    /\ \E processing_duration \in Durations :
         /\ metrics' = Append(metrics, emit_processing_duration(processing_duration))
         /\ Return(Response(200,
                [message |-> "Webhook processed and posted to Teams successfully",
                 event_type |-> locals.event_type,
                 event_category |-> locals.parsed_event.event_category,
                 repository |-> locals.teams_url,
                 request_id |-> locals.request_id,
                 processing_duration_ms |-> processing_duration]))
    /\ UNCHANGED <<process, _cached_secrets, _secrets_client, store_log, invocations,
                   request, locals, calls, journal>>

Success ==
    /\ pc = "success"
    /\ \E processing_duration \in Durations :
         /\ metrics' = Append(metrics, emit_processing_duration(processing_duration))
         /\ Return(Response(200,
                [message |-> "Webhook processed and posted to Teams successfully",
                 event_type |-> locals.event_type,
                 event_category |-> locals.parsed_event.event_category,
                 repository |-> locals.parsed_event.repository,
                 request_id |-> locals.request_id,
                 processing_duration_ms |-> processing_duration]))
    /\ UNCHANGED <<process, _cached_secrets, _secrets_client, store_log, invocations,
                   request, locals, calls, journal>>

\* The invocation is over; the environment is ready for the next one.
Finish ==
    /\ pc \in {"done", "raised"}
    /\ pc' = "idle"
    /\ request' = {}
    /\ locals' = NoLocals
    /\ calls' = <<>>
    /\ metrics' = <<>>
    /\ response' = None
    /\ UNCHANGED <<process, _cached_secrets, _secrets_client, store_log, invocations,
                   journal>>

Next ==
    \/ Invoke
    \/ Start
    \/ Decode
    \/ ParseJSON
    \/ RetrieveSigningSecret
    \/ VerifySignature
    \/ Filter
    \/ ParseEvent
    \/ Format
    \/ RetrieveChatUrl
    \/ Post
    \/ Success
    \/ Finish

Spec == Init /\ [][Next]_vars

(***************************************************************************)
(* The secrets client on its own: get_secret called directly, in any       *)
(* order and with any identifier, against a store whose values may be      *)
(* rotated, over several process lifetimes.  Here `calls` is what the      *)
(* latest get_secret call did, `response` what it returned or raised, and  *)
(* `invocations` the number of calls made so far.                          *)
(***************************************************************************)
MaxSecretCalls == 4

\* Identifiers get_secret is called with.
SecretIds == {"", BitbucketArn, TeamsArn}

RotatedSecret == <<"r0tated">>

\* The store before and after a rotation of the signing secret.
RotatedStores ==
    Stores \cup {{<<BitbucketArn, Str(RotatedSecret)>>, <<TeamsArn, Str(TeamsUrl)>>}}

\* One call get_secret(secret_arn).
GetSecret ==
    /\ pc = "idle"
    /\ invocations < MaxSecretCalls
    /\ \E secret_arn \in SecretIds, failure \in StoreFailures :
         LET r == get_secret(secret_arn, _cached_secrets, store, failure)
             reply == StoreReply(store, secret_arn, failure)
         IN  /\ _cached_secrets' = r.cache
             /\ _secrets_client' = IF r.called THEN get_secrets_client(_secrets_client)
                                   ELSE _secrets_client
             /\ store_log' = IF r.called THEN Append(store_log, secret_arn) ELSE store_log
             /\ calls' = <<Call("get_secret", secret_arn)>>
                         \o (IF r.called
                             THEN <<Call("get_secret_value", secret_arn),
                                    Call("get_secret_value.reply", reply)>>
                             ELSE <<>>)
             /\ response' = r.result
    /\ invocations' = invocations + 1
    /\ UNCHANGED <<process, pc, request, locals, metrics, journal>>

\* The operator of the store rotates a secret or removes its string payload.
Rotate ==
    /\ pc = "idle"
    /\ store' \in RotatedStores \ {store}
    /\ UNCHANGED <<environ, CONFIG, FILTER_CONFIG, _cached_secrets, _secrets_client,
                   store_log, invocations, pc, request, locals, calls, metrics, response,
                   journal>>

\* The platform replaces the process: the module is loaded afresh.
ColdStart ==
    /\ pc = "idle"
    /\ CONFIG' = ColdStartConfig(environ).CONFIG
    /\ FILTER_CONFIG' = ColdStartConfig(environ).FILTER_CONFIG
    /\ _cached_secrets' = {}
    /\ _secrets_client' = None
    /\ store_log' = <<>>
    /\ calls' = <<>>
    /\ response' = None
    /\ UNCHANGED <<environ, store, invocations, pc, request, locals, metrics, journal>>

SecretInit ==
    /\ Init
    /\ environ = {<<"TEAMS_WEBHOOK_URL_SECRET_ARN", TeamsArn>>,
                  <<"BITBUCKET_SECRET_ARN", BitbucketArn>>}

SecretNext == GetSecret \/ Rotate \/ ColdStart

SecretSpec == SecretInit /\ [][SecretNext]_vars

(***************************************************************************)
(* The pure components on their own: one call, its arguments drawn from    *)
(* bounded sets.  Here `request` is the call and its arguments, and        *)
(* `response` what the call returned.                                      *)
(***************************************************************************)
\* validate_webhook_signature(headers, body, secret): header maps with the
\* signature header absent or present under either looked-up name; header
\* values that are empty, unprefixed, wrongly prefixed, signed with any of
\* the keys, or not ASCII.
ValidateCalls ==
    LET bodies == {JsonText("compact", WellFormedPullRequest), NotJson, EmptyText}
        values(text) == SignatureValues(text) \cup {<<"sha256=", NonAsciiLexeme>>}
    IN  UNION { { [fn |-> "validate_webhook_signature", headers |-> h, body |-> b,
                   secret |-> k] :
                    h \in {{}} \cup { {<<name, sig>>} :
                                        name \in {"X-Hub-Signature", "x-hub-signature"},
                                        sig \in values(b) },
                    k \in SenderKeys } : b \in bodies }

\* should_process_event(event_type, event_data, filter_config): every mode,
\* with and without an explicit list.
FilterConfigs ==
    { [mode |-> "all", event_types |-> <<>>],
      [mode |-> "deployments", event_types |-> <<>>],
      [mode |-> "failures", event_types |-> <<>>],
      from_environment(ExplicitFilter, "explicit"),
      from_environment(<<>>, "explicit"),
      from_environment(ExplicitFilter, "custom") }

ShouldProcessCalls ==
    { [fn |-> "should_process_event", event_type |-> et, event_data |-> d,
       filter_config |-> fc] :
        et \in EventTypes \cup {<<"pullrequest", ":", "unapproved">>},
        d \in Docs, fc \in FilterConfigs }

\* post_to_teams(adaptive_card, webhook_url) and what http.request does:
\* no card, an empty one, the card of a pull request, a flat dict, and a
\* dict whose `body` is not a list of containers; no URL, an empty one, a
\* URL.
PostCalls ==
    LET card == format_teams_message(
                    parse_bitbucket_event(WellFormedPullRequest,
                                          <<"pullrequest", ":", "created">>))
    IN  { [fn |-> "post_to_teams", adaptive_card |-> c, webhook_url |-> u, http |-> h] :
            c \in {None, EmptyDict, card, Obj({<<"text", Str(<<"hello">>)>>}),
                   Obj({<<"body", List(<<Str(<<"x">>)>>)>>})},
            u \in {None, Str(<<>>), Str(TeamsUrl)},
            h \in HttpOutcomes }

\* get_event_color(event_category, action, metadata): every category and
\* one unknown, the actions the parser derives and one unknown, metadata
\* with and without a state.
ColorCalls ==
    { [fn |-> "get_event_color", event_category |-> c, action |-> a, metadata |-> m] :
        c \in {"pull_request", "push", "comment", "commit_status", "deployment"},
        a \in {<<"failed">>, <<"declined">>, <<"stopped">>, <<"rejected">>, <<"merged">>,
               <<"succeeded">>, <<"approved">>, <<"created">>, <<"inprogress">>,
               <<"unknown">>},
        m \in {[branch |-> Str(<<"main">>)]}
              \cup {[state |-> Str(<<st>>)] :
                       st \in {"SUCCESSFUL", "FAILED", "STOPPED", "ERROR", "INPROGRESS",
                               "failed", "successful"}} }

\* The exception classes that the stages of lambda_handler, the secret store
\* and the HTTP client raise into the handler's try block.
ErrorKinds ==
    {"JSONDecodeError", "ValueError", "KeyError", "TypeError", "ConnectionError",
     "TimeoutError", "ClientError", "EndpointConnectionError", "MaxRetryError",
     "AttributeError", "IndexError", "RuntimeError"}

ErrorCalls == { [fn |-> "lambda_handler.except", exc |-> Exc(e)] : e \in ErrorKinds }

\* Events as they reach the Filter stage of a deployment in filter mode
\* `failures`: commit statuses in every state and letter case, pull
\* requests, and payloads the parser refuses.
StateSpellings ==
    {"FAILED", "Failed", "failed", "STOPPED", "Stopped", "stopped", "ERROR", "Error",
     "error", "SUCCESSFUL", "successful", "INPROGRESS", "inprogress"}

WellFormedFailures ==
    { Obj({Repo, <<"commit_status", CommitStatus(Str(<<st>>))>>}) : st \in StateSpellings }
    \cup {WellFormedPullRequest}

FilterParseFormatCalls ==
    { [fn |-> "filter_parse_format", event_type |-> et, event_data |-> d] :
        et \in {<<"repo", ":", "commit_status", "_updated">>,
                <<"repo", ":", "commit_status", "_created">>,
                <<"pullrequest", ":", "rejected">>, <<"pullrequest", ":", "created">>,
                <<"repo", ":", "push">>},
        d \in WellFormedFailures \cup Docs }

UnitCalls ==
    ValidateCalls \cup ShouldProcessCalls \cup PostCalls \cup ColorCalls \cup ErrorCalls
        \cup FilterParseFormatCalls

UnitInit ==
    /\ environ = {}
    /\ CONFIG = None
    /\ FILTER_CONFIG = None
    /\ _cached_secrets = {}
    /\ _secrets_client = None
    /\ store = HealthyStore
    /\ store_log = <<>>
    /\ invocations = 0
    /\ pc = "call"
    /\ request \in UnitCalls
    /\ locals = NoLocals
    /\ calls = <<>>
    /\ metrics = <<>>
    /\ response = None
    /\ journal = <<>>

Returns(value) ==
    /\ response' = value
    /\ pc' = "returned"
    /\ UNCHANGED <<process, _cached_secrets, _secrets_client, store_log, invocations,
                   request, locals, calls, metrics, journal>>

Validate ==
    /\ pc = "call"
    /\ request.fn = "validate_webhook_signature"
    /\ Returns(validate_webhook_signature(request.headers, request.body, request.secret))

ShouldProcess ==
    /\ pc = "call"
    /\ request.fn = "should_process_event"
    /\ Returns(should_process_event(request.event_type, request.event_data,
                                    request.filter_config))

PostToTeams ==
    /\ pc = "call"
    /\ request.fn = "post_to_teams"
    /\ Returns(post_to_teams(request.adaptive_card, request.webhook_url, request.http))

GetEventColor ==
    /\ pc = "call"
    /\ request.fn = "get_event_color"
    /\ Returns(get_event_color(request.event_category, request.action, request.metadata))

HandleError ==
    /\ pc = "call"
    /\ request.fn = "lambda_handler.except"
    /\ Returns(CatchAll(request.exc))

\* lambda_handler from the Filter stage to the Format stage, in filter mode
\* `failures`: each stage runs if the one before it let the event through.
FilterParseFormat ==
    /\ pc = "call"
    /\ request.fn = "filter_parse_format"
    /\ LET filter_config == from_environment(<<>>, "failures")
           decision == should_process_event(request.event_type, request.event_data,
                                            filter_config)
           parsed_event == IF decision = Bool(TRUE)
                           THEN parse_bitbucket_event(request.event_data, request.event_type)
                           ELSE Skipped
           teams_message == IF parsed_event.t = "ParsedEvent"
                            THEN format_teams_message(parsed_event)
                            ELSE Skipped
       IN  Returns([decision |-> decision, parsed_event |-> parsed_event,
                    teams_message |-> teams_message])

UnitNext ==
    \/ Validate
    \/ ShouldProcess
    \/ PostToTeams
    \/ GetEventColor
    \/ HandleError
    \/ FilterParseFormat

UnitSpec == UnitInit /\ [][UnitNext]_vars

(***************************************************************************)
(* get_secret called by threads of one process that interleave.  Nothing   *)
(* in get_secret takes a lock; a thread may be suspended between any two   *)
(* of its reads and writes of the module-level names.  In this             *)
(* specification pc, request, locals and response hold one value per       *)
(* thread.                                                                 *)
(***************************************************************************)
MaxThreads == 2

Threads == 1..MaxThreads

RaceInit ==
    /\ environ = {<<"TEAMS_WEBHOOK_URL_SECRET_ARN", TeamsArn>>,
                  <<"BITBUCKET_SECRET_ARN", BitbucketArn>>}
    /\ store \in Stores
    /\ CONFIG = ColdStartConfig(environ).CONFIG
    /\ FILTER_CONFIG = ColdStartConfig(environ).FILTER_CONFIG
    /\ _cached_secrets = {}
    /\ _secrets_client = None
    /\ store_log = <<>>
    /\ invocations = 0
    /\ pc = [t \in Threads |-> "get_secret"]
    /\ request \in [Threads -> SecretIds]
    /\ locals = [t \in Threads |-> [client |-> None, secret_value |-> None]]
    /\ calls = <<>>
    /\ metrics = <<>>
    /\ response = [t \in Threads |-> None]
    /\ journal = <<>>

\* `return value` or `raise value` in thread t.
ThreadReturns(t, value) ==
    /\ response' = [response EXCEPT ![t] = value]
    /\ pc' = [pc EXCEPT ![t] = "returned"]

\* `if not secret_arn: raise`, `if secret_arn in _cached_secrets: return`.
CacheLookup(t) ==
    /\ pc[t] = "get_secret"
    /\ IF request[t] = "" THEN ThreadReturns(t, Exc("ValueError"))
       ELSE IF MapHas(_cached_secrets, request[t])
       THEN ThreadReturns(t, MapGet(_cached_secrets, request[t]))
       ELSE pc' = [pc EXCEPT ![t] = "get_secrets_client"] /\ UNCHANGED response
    /\ UNCHANGED <<process, _cached_secrets, _secrets_client, store_log, invocations,
                   request, locals, calls, metrics, journal>>

\* get_secrets_client: `if _secrets_client is None`.
ClientCheck(t) ==
    /\ pc[t] = "get_secrets_client"
    /\ pc' = [pc EXCEPT ![t] = IF _secrets_client = None THEN "boto3.client"
                               ELSE "return _secrets_client"]
    /\ UNCHANGED <<process, _cached_secrets, _secrets_client, store_log, invocations,
                   request, locals, calls, metrics, response, journal>>

\* get_secrets_client: `_secrets_client = boto3.client('secretsmanager')`.
ClientCreate(t) ==
    /\ pc[t] = "boto3.client"
    /\ _secrets_client' = SecretsManagerClient
    /\ pc' = [pc EXCEPT ![t] = "return _secrets_client"]
    /\ UNCHANGED <<process, _cached_secrets, store_log, invocations, request, locals,
                   calls, metrics, response, journal>>

\* get_secrets_client: `return _secrets_client`.
ClientReturn(t) ==
    /\ pc[t] = "return _secrets_client"
    /\ locals' = [locals EXCEPT ![t].client = _secrets_client]
    /\ pc' = [pc EXCEPT ![t] = "get_secret_value"]
    /\ UNCHANGED <<process, _cached_secrets, _secrets_client, store_log, invocations,
                   request, calls, metrics, response, journal>>

\* client.get_secret_value(SecretId=secret_arn) and the reading of its
\* reply; an error is logged and raised again.
CallStore(t) ==
    /\ pc[t] = "get_secret_value"
    /\ \E failure \in StoreFailures :
         LET reply == StoreReply(store, request[t], failure)
         IN  IF IsExc(reply) THEN ThreadReturns(t, reply) /\ UNCHANGED locals
             ELSE IF reply.SecretString = None
             THEN ThreadReturns(t, Exc("ValueError")) /\ UNCHANGED locals
             ELSE /\ locals' = [locals EXCEPT ![t].secret_value = reply.SecretString]
                  /\ pc' = [pc EXCEPT ![t] = "cache"]
                  /\ UNCHANGED response
    /\ store_log' = Append(store_log, request[t])
    /\ calls' = Append(calls, Call("get_secret_value", request[t]))
    /\ UNCHANGED <<process, _cached_secrets, _secrets_client, invocations, request,
                   metrics, journal>>

\* `_cached_secrets[secret_arn] = secret_value`, `return secret_value`.
CacheValue(t) ==
    /\ pc[t] = "cache"
    /\ _cached_secrets' = MapPut(_cached_secrets, request[t], locals[t].secret_value)
    /\ ThreadReturns(t, locals[t].secret_value)
    /\ UNCHANGED <<process, _secrets_client, store_log, invocations, request, locals,
                   calls, metrics, journal>>

RaceNext ==
    \/ \E t \in Threads : CacheLookup(t)
    \/ \E t \in Threads : ClientCheck(t)
    \/ \E t \in Threads : ClientCreate(t)
    \/ \E t \in Threads : ClientReturn(t)
    \/ \E t \in Threads : CallStore(t)
    \/ \E t \in Threads : CacheValue(t)

RaceSpec == RaceInit /\ [][RaceNext]_vars

(***************************************************************************)
(* The handler as its callers see it over several process lifetimes: the   *)
(* platform may replace the process between two invocations, and the       *)
(* operator may point the deployment at another chat webhook URL when it   *)
(* does.  `journal` keeps what each finished invocation was given and what *)
(* it answered and posted.                                                 *)
(***************************************************************************)
MaxReplays == 3

OtherTeamsUrl == <<"https://teams.example/other-workflow">>

\* The store with either value of the chat webhook URL secret.
ReplayStores ==
    { HealthyStore, {<<BitbucketArn, Str(SigningSecret)>>, <<TeamsArn, Str(OtherTeamsUrl)>>} }

\* A well-formed pull request signed with the right and with a wrong key, a
\* failed build, an event type the parser does not know, and a body that is
\* not JSON.
ReplayRequests ==
    LET text == JsonText("compact", WellFormedPullRequest)
        build == JsonText("compact",
                          Obj({Repo, <<"commit_status", CommitStatus(Str(<<"FAILED">>))>>}))
        Signed(et, body, key) ==
            Envelope(Headers(Canonical, et, <<"sha256=">> \o compute_signature(body, key)),
                     body, "absent")
    IN  { Signed(<<"pullrequest", ":", "created">>, text, SigningSecret),
          Signed(<<"pullrequest", ":", "created">>, text, <<"wr0ng">>),
          Signed(<<"repo", ":", "commit_status", "_updated">>, build, SigningSecret),
          Signed(<<"repo", ":", "fork">>, text, SigningSecret),
          Signed(<<"repo", ":", "push">>, NotJson, SigningSecret) }

ReplayInit ==
    /\ environ = {<<"TEAMS_WEBHOOK_URL_SECRET_ARN", TeamsArn>>,
                  <<"BITBUCKET_SECRET_ARN", BitbucketArn>>}
    /\ store \in ReplayStores
    /\ CONFIG = ColdStartConfig(environ).CONFIG
    /\ FILTER_CONFIG = ColdStartConfig(environ).FILTER_CONFIG
    /\ _cached_secrets = {}
    /\ _secrets_client = None
    /\ store_log = <<>>
    /\ invocations = 0
    /\ pc = "idle"
    /\ request = {}
    /\ locals = NoLocals
    /\ calls = <<>>
    /\ metrics = <<>>
    /\ response = None
    /\ journal = {}

\* lambda_handler(event, context) is called.
Send ==
    /\ pc = "idle"
    /\ invocations < MaxReplays
    /\ request' \in ReplayRequests
    /\ locals' = [NoLocals EXCEPT !.request_id = LambdaContext.aws_request_id]
    /\ invocations' = invocations + 1
    /\ pc' = "start"
    /\ calls' = <<>>
    /\ metrics' = <<>>
    /\ response' = None
    /\ UNCHANGED <<process, _cached_secrets, _secrets_client, store_log, journal>>

\* The identifiers the invocation fetched from the store, and whether a
\* fetch of a secret that the store holds failed.
Fetched == {calls[i].arg : i \in {j \in 1..Len(calls) : calls[j].fn = "get_secret_value"}}

Asked(arn) == \E i \in 1..Len(calls) : calls[i] = Call("get_secret", arn)

StoreFailed ==
    \/ /\ Asked(BitbucketArn)
       /\ locals.webhook_secret = None
    \/ /\ Asked(TeamsArn)
       /\ locals.teams_url = None

\* What the chat endpoint did with the POST, if one was made.
ChatOutcome ==
    IF \E i \in 1..Len(calls) : calls[i].fn = "http.request"
    THEN Bool(locals.success)
    ELSE None

HttpRequests == SelectSeq(calls, LAMBDA c : c.fn = "http.request")

\* The invocation is over and its caller has the response.
Record ==
    /\ pc \in {"done", "raised"}
    /\ journal' = journal \cup
          {[request |-> request, request_id |-> locals.request_id,
            event_type |-> locals.event_type, store |-> store,
            fetched |-> Fetched, store_failed |-> StoreFailed,
            webhook_secret |-> locals.webhook_secret, teams_url |-> locals.teams_url,
            chat |-> ChatOutcome,
            response |-> response, posts |-> HttpRequests]}
    /\ pc' = "idle"
    /\ request' = {}
    /\ locals' = NoLocals
    /\ calls' = <<>>
    /\ metrics' = <<>>
    /\ response' = None
    /\ UNCHANGED <<process, _cached_secrets, _secrets_client, store_log, invocations>>

\* The platform replaces the process; the new one may find another chat
\* webhook URL in the store.
Redeploy ==
    /\ pc = "idle"
    /\ journal # {}
    /\ store' \in ReplayStores
    /\ CONFIG' = ColdStartConfig(environ).CONFIG
    /\ FILTER_CONFIG' = ColdStartConfig(environ).FILTER_CONFIG
    /\ _cached_secrets' = {}
    /\ _secrets_client' = None
    /\ store_log' = <<>>
    /\ UNCHANGED <<environ, invocations, pc, request, locals, calls, metrics, response,
                   journal>>

ReplayNext ==
    \/ Send
    \/ Start
    \/ Decode
    \/ ParseJSON
    \/ RetrieveSigningSecret
    \/ VerifySignature
    \/ Filter
    \/ ParseEvent
    \/ Format
    \/ RetrieveChatUrl
    \/ Post
    \/ Success
    \/ Record
    \/ Redeploy

ReplaySpec == ReplayInit /\ [][ReplayNext]_vars

(***************************************************************************)
(* Vocabulary of the properties.                                           *)
(***************************************************************************)
\* The decoded body of the response of the finished invocation.
Reply == json_loads(response.body)

Replied(status, key, text) ==
    /\ response.statusCode = status
    /\ key \in DOMAIN Reply
    /\ Reply[key] = text

\* How often the current invocation has invoked a component / emitted a
\* metric so far.
CallCount(fn) == Cardinality({i \in 1..Len(calls) : calls[i].fn = fn})
Called(fn) == CallCount(fn) > 0
MetricCount(name) == Cardinality({i \in 1..Len(metrics) : metrics[i].name = name})

\* The stages of an invocation, in program order, and the two ways it ends.
StageOrder ==
    <<"start", "decode", "parse_json", "retrieve_secret", "verify", "filter",
      "parse_event", "format", "retrieve_url", "post", "success", "done", "raised">>
Stages == {StageOrder[i] : i \in 1..11}
Rank(p) == CHOOSE i \in 1..Len(StageOrder) : StageOrder[i] = p

(***************************************************************************)
(* C1.                                                                     *)
(***************************************************************************)
C1_Contract ==
    /\ pc \in Stages \cup {"idle", "done"}
    /\ (pc = "done") = (response # None)
    /\ pc = "done" =>
         /\ response.statusCode \in {200, 400, 401, 500}
         /\ DOMAIN Reply \cap {"message", "error"} # {}

\* A step of a running invocation moves it to a later stage or ends it.
Advances == (pc \in Stages) => (Rank(pc') > Rank(pc))

\* C1: every invocation terminates by returning one response whose
\* statusCode is 200, 400, 401 or 500 and whose body is a JSON object with a
\* `message` or an `error` field; no exception leaves the handler.
C1_AlwaysResponds ==
    /\ []C1_Contract
    /\ [][Advances]_vars

\* C1 for an exception that only the final `except Exception` takes.
C1_Witness ==
    /\ pc = "done"
    /\ Replied(500, "error", "Internal server error")

(***************************************************************************)
(* C2, C3: signature verification.                                         *)
(***************************************************************************)
\* The value the request carries in its signature header ('' when it
\* carries none).
SentHeaders == EvGet(request, "headers", {})
SentSignature ==
    HdrGet(SentHeaders, "X-Hub-Signature", HdrGet(SentHeaders, "x-hub-signature", <<>>))

\* The header is `sha256=` followed by the digest of `text` under `key`.
Signs(text, key) == SentSignature = <<"sha256=">> \o compute_signature(text, key)

\* The signing secret as the store holds it ('' when it holds no string).
StoredSigningSecret ==
    LET held == MapGet(store, CONFIG.bitbucket_secret_arn)
    IN  IF held = None THEN <<>> ELSE held.s

\* The signature header is missing, malformed, or matches neither the body
\* as received nor the minified form of the parsed JSON, under `key`.
BadSignature(key) ==
    \/ SentSignature = <<>>
    \/ ~StartsWith(SentSignature, <<"sha256=">>)
    \/ /\ ~Signs(locals.body_str, key)
       /\ ~Signs(json_dumps_compact(locals.body), key)

Rejected ==
    /\ Replied(401, "error", "Unauthorized")
    /\ ~Called("parse_bitbucket_event")
    /\ ~Called("format_teams_message")
    /\ ~Called("post_to_teams")

\* C2 as stated: with loaded configuration and a JSON-decodable body, a
\* missing, malformed or non-matching signature header always gets 401.
C2_AsStated ==
    (pc = "done" /\ CONFIG # None /\ locals.body # None
        /\ BadSignature(StoredSigningSecret)) => Rejected

\* C2: with loaded configuration, a JSON-decodable body and the signing
\* secret retrieved, a request whose signature header is missing, malformed
\* or matches neither the raw body nor its minified form gets 401
\* "Unauthorized", and parser, formatter and chat client are never invoked.
C2_BadSignatureRejected ==
    (pc = "done" /\ CONFIG # None /\ locals.body # None
        /\ locals.webhook_secret # None
        /\ BadSignature(locals.webhook_secret.s)) => Rejected

\* C2 for a well-formed header that carries the digest under another key.
C2_Witness ==
    /\ pc = "done"
    /\ locals.webhook_secret # None
    /\ StartsWith(SentSignature, <<"sha256=">>)
    /\ Len(SentSignature) = 2
    /\ BadSignature(locals.webhook_secret.s)
    /\ Rejected

\* The text handed to the first signature check of this invocation: the
\* body as received.
RawBody ==
    calls[CHOOSE i \in 1..Len(calls) :
            /\ calls[i].fn = "validate_webhook_signature"
            /\ \A j \in 1..(i - 1) : calls[j].fn # "validate_webhook_signature"].arg

\* The minified re-serialization of the parsed JSON (an empty body parses
\* as {}).
Minified == json_dumps_compact(locals.body)

\* The minified form is tried only after the raw form has failed
\* (raw_passes tells whether the raw form verifies), and a request that
\* fails verification gets 401.
C3_Order(raw_passes) ==
    /\ CallCount("validate_webhook_signature") <= 2
    /\ CallCount("validate_webhook_signature") = 2 =>
         /\ ~raw_passes
         /\ \E i \in 1..Len(calls) : calls[i] = Call("validate_webhook_signature", Minified)
    /\ (pc = "done" /\ ~locals.is_valid) => Replied(401, "error", "Unauthorized")

\* C3 as stated: verification passes iff the header is `sha256=` plus the
\* digest, under the retrieved secret, of the raw body or of the minified
\* form of the parsed JSON.
C3_AsStated ==
    Called("validate_webhook_signature") =>
        /\ locals.is_valid <=> (\/ Signs(RawBody, locals.webhook_secret.s)
                                \/ Signs(Minified, locals.webhook_secret.s))
        /\ C3_Order(Signs(RawBody, locals.webhook_secret.s))

\* C3: verification passes iff the header is `sha256=` plus the digest,
\* under the retrieved signing secret, of the raw body or, when the raw body
\* is itself JSON text, of its minified re-serialization (an empty body has
\* no minified form); the minified form is tried only after the raw form
\* fails; when both fail the response is 401.
C3_VerifyIff ==
    Called("validate_webhook_signature") =>
        /\ locals.is_valid <=>
               \/ Signs(RawBody, locals.webhook_secret.s)
               \/ /\ ~IsExc(json_loads(RawBody))
                  /\ Signs(json_dumps_compact(json_loads(RawBody)),
                           locals.webhook_secret.s)
        /\ C3_Order(Signs(RawBody, locals.webhook_secret.s))

\* C3 for a pretty-printed body signed over its minified form: the raw
\* check fails, the second one passes.
C3_Witness ==
    /\ pc = "filter"
    /\ locals.is_valid
    /\ CallCount("validate_webhook_signature") = 2
    /\ RawBody.fmt = "pretty"
    /\ Signs(Minified, locals.webhook_secret.s)

(***************************************************************************)
(* C4: filtered events.                                                    *)
(***************************************************************************)
\* The discriminator the request carries ('' when it carries none).
SentEventType ==
    HdrGet(SentHeaders, "X-Event-Key", HdrGet(SentHeaders, "x-event-key", <<>>))

NothingPosted == ~Called("post_to_teams") /\ ~Called("http.request")

\* C4: an authenticated request for which the filter policy's shouldProcess
\* is false gets 200 "Event filtered, not processed" with event_type and
\* request_id echoed, and the chat client is never invoked.
C4_FilteredEvent ==
    (pc = "done" /\ locals.is_valid /\ FILTER_CONFIG # None
        /\ should_process(FILTER_CONFIG, SentEventType, locals.body) = Bool(FALSE))
    => /\ Replied(200, "message", "Event filtered, not processed")
       /\ Reply.event_type = SentEventType
       /\ Reply.request_id = locals.request_id
       /\ NothingPosted

\* C4 for a push event under the "failures" policy.
C4_Witness ==
    /\ pc = "done"
    /\ locals.is_valid
    /\ FILTER_CONFIG.mode = "failures"
    /\ SentEventType = <<"repo", ":", "push">>
    /\ Replied(200, "message", "Event filtered, not processed")

(***************************************************************************)
(* C5, C6: the chat post.                                                  *)
(***************************************************************************)
\* The chat webhook URL as the store holds it.
StoredChatUrl == MapGet(store, CONFIG.teams_webhook_url_secret_arn)

\* C5: a correctly signed, filter-passing request with a supported
\* discriminator and a well-formed payload, both secrets retrieved and the
\* chat client returning true, gets 200 with event_type, event_category,
\* repository and request_id; the chat client is invoked exactly once, with
\* the retrieved chat URL; exactly one ProcessingDuration metric is emitted.
C5_Success ==
    (pc = "done" /\ locals.is_valid /\ locals.parsed_event # None
        /\ locals.teams_url # None /\ locals.success)
    => /\ Replied(200, "message", "Webhook processed and posted to Teams successfully")
       /\ Reply.event_type = SentEventType
       /\ Reply.event_category =
             parse_bitbucket_event(locals.body, SentEventType).event_category
       /\ Reply.repository = parse_bitbucket_event(locals.body, SentEventType).repository
       /\ Reply.request_id = locals.request_id
       /\ CallCount("post_to_teams") = 1
       /\ \E i \in 1..Len(calls) : calls[i] = Call("post_to_teams", StoredChatUrl)
       /\ CallCount("http.request") = 1
       /\ MetricCount(<<"ProcessingDuration">>) = 1

\* C5 for a served invocation whose chat URL came from the cache.
C5_Witness ==
    /\ pc = "done"
    /\ locals.success
    /\ invocations = 2
    /\ ~Called("get_secret_value")
    /\ Replied(200, "message", "Webhook processed and posted to Teams successfully")

\* C6: when the chat client returns false the response is 500 "Failed to
\* post to Teams", exactly one TeamsAPIFailures metric is emitted and no
\* ProcessingDuration metric.
C6_PostFailed ==
    (pc = "done" /\ Called("post_to_teams") /\ ~locals.success)
    => /\ Replied(500, "error", "Failed to post to Teams")
       /\ MetricCount(<<"TeamsAPIFailures">>) = 1
       /\ MetricCount(<<"ProcessingDuration">>) = 0

\* C6 for a POST that was issued and did not succeed.
C6_Witness ==
    /\ pc = "done"
    /\ Called("http.request")
    /\ ~locals.success
    /\ Replied(500, "error", "Failed to post to Teams")

(***************************************************************************)
(* C7: failed cold start.                                                  *)
(***************************************************************************)
\* TEAMS_WEBHOOK_URL_SECRET_ARN or BITBUCKET_SECRET_ARN is unset or empty.
RequiredSettingMissing ==
    \E name \in {"TEAMS_WEBHOOK_URL_SECRET_ARN", "BITBUCKET_SECRET_ARN"} :
        \A p \in environ : p[1] = name => p[2] = ""

\* C7: when configuration loading failed at cold start, every invocation
\* gets 500 "Server configuration error" and none calls the secret store,
\* verifies a signature or posts to the chat service.
C7_ConfigFailed ==
    RequiredSettingMissing
    => /\ CONFIG = None
       /\ calls = <<>>
       /\ store_log = <<>>
       /\ pc \in {"idle", "start", "done"}
       /\ pc = "done" => Replied(500, "error", "Server configuration error")

\* C7 for the second invocation of such a process.
C7_Witness ==
    /\ RequiredSettingMissing
    /\ invocations = 2
    /\ pc = "done"
    /\ Replied(500, "error", "Server configuration error")

(***************************************************************************)
(* C8: undecodable bodies.                                                 *)
(***************************************************************************)
SecretStoreUntouched ==
    /\ ~Called("get_secret")
    /\ ~Called("get_secret_value")

\* C8: with loaded configuration, a non-empty body that is not JSON gets 400
\* "Invalid JSON payload" whatever its signature header, before the secret
\* store is contacted or a signature verified; an empty body is treated as
\* {} and does not take this path.
C8_InvalidJson ==
    /\ (pc = "done" /\ CONFIG # None /\ locals.body_str # None
           /\ locals.body_str # EmptyText /\ IsExc(json_loads(locals.body_str)))
       => /\ Replied(400, "error", "Invalid JSON payload")
          /\ SecretStoreUntouched
          /\ ~Called("validate_webhook_signature")
    /\ (pc = "done" /\ CONFIG # None /\ locals.body_str = EmptyText)
       => /\ locals.body = EmptyDict
          /\ ~Replied(400, "error", "Invalid JSON payload")

\* C8 for an undecodable body that carries a valid signature.
C8_Witness ==
    /\ pc = "done"
    /\ locals.body_str = NotJson
    /\ SentSignature = <<"sha256=">> \o compute_signature(NotJson, StoredSigningSecret)
    /\ Replied(400, "error", "Invalid JSON payload")

(***************************************************************************)
(* C9: secret retrieval failures.                                          *)
(***************************************************************************)
SecretRequested(arn) == \E i \in 1..Len(calls) : calls[i] = Call("get_secret", arn)

\* C9: when retrieval of the signing secret or of the chat URL fails, for
\* any cause, the response is 500 "Server configuration error" and the chat
\* client is not invoked; a signing-secret failure also means no signature
\* verification and no signature-failure metric.
C9_SecretFailure ==
    /\ (pc = "done" /\ CONFIG # None /\ SecretRequested(CONFIG.bitbucket_secret_arn)
           /\ locals.webhook_secret = None)
       => /\ Replied(500, "error", "Server configuration error")
          /\ NothingPosted
          /\ ~Called("validate_webhook_signature")
          /\ MetricCount(<<"SignatureVerificationFailures">>) = 0
    /\ (pc = "done" /\ CONFIG # None
           /\ SecretRequested(CONFIG.teams_webhook_url_secret_arn)
           /\ locals.teams_url = None)
       => /\ Replied(500, "error", "Server configuration error")
          /\ NothingPosted

\* C9 for a chat URL secret that has no string value.
C9_Witness ==
    /\ pc = "done"
    /\ CONFIG # None
    /\ StoredChatUrl = None
    /\ SecretRequested(CONFIG.teams_webhook_url_secret_arn)
    /\ calls[Len(calls)] = Call("get_secret_value", CONFIG.teams_webhook_url_secret_arn)
    /\ Replied(500, "error", "Server configuration error")

(***************************************************************************)
(* C10: unsupported discriminators.                                        *)
(***************************************************************************)
\* Neither a comment literal, nor `pullrequest:`-prefixed, nor `repo:push`,
\* nor a commit-status literal.
Unsupported(event_type) ==
    /\ event_type \notin {<<"pullrequest", ":", "comment_created">>,
                          <<"repo", ":", "commit_comment_created">>}
    /\ ~StartsWith(event_type, <<"pullrequest", ":">>)
    /\ event_type # <<"repo", ":", "push">>
    /\ event_type \notin {<<"repo", ":", "commit_status", "_updated">>,
                          <<"repo", ":", "commit_status", "_created">>}

UnsupportedOutcome ==
    /\ parse_bitbucket_event(locals.body, SentEventType) = None
    /\ Replied(200, "message", "Unsupported event type, not processed")
    /\ MetricCount(<<"UnsupportedEventTypes">>) = 1
    /\ NothingPosted

\* C10 as stated: for any payload, an unsupported discriminator makes the
\* parser return "unsupported" and the handler answer 200.
C10_AsStated ==
    (pc = "done" /\ Called("parse_bitbucket_event") /\ Unsupported(SentEventType))
    => UnsupportedOutcome

\* A non-empty JSON object whose `repository` is absent or an object.
ObjectPayload(body) ==
    /\ body.t = "obj"
    /\ body.kv # {}
    /\ HasKey(body, "repository") => Lookup(body, "repository").t = "obj"

\* C10: for a non-empty JSON-object payload whose `repository` is absent or
\* an object, an unsupported discriminator makes the parser return
\* "unsupported" (None, not an error); the handler, for an authenticated,
\* filter-passing request, answers 200 "Unsupported event type, not
\* processed", emits exactly one UnsupportedEventTypes metric and does not
\* post.
C10_Unsupported ==
    (pc = "done" /\ Called("parse_bitbucket_event") /\ Unsupported(SentEventType)
        /\ ObjectPayload(locals.body))
    => UnsupportedOutcome

\* C10 for a repo:fork event that carries a pull request payload.
C10_Witness ==
    /\ pc = "done"
    /\ SentEventType = <<"repo", ":", "fork">>
    /\ locals.body = WellFormedPullRequest
    /\ Called("parse_bitbucket_event")
    /\ UnsupportedOutcome

(***************************************************************************)
(* C11: malformed payloads of recognised events.                           *)
(***************************************************************************)
\* The nested object the parser of a recognised discriminator reads first.
RequiredObject(event_type) ==
    IF event_type \in {<<"pullrequest", ":", "comment_created">>,
                       <<"repo", ":", "commit_comment_created">>} THEN "comment"
    ELSE IF StartsWith(event_type, <<"pullrequest", ":">>) THEN "pullrequest"
    ELSE IF event_type = <<"repo", ":", "push">> THEN "push"
    ELSE "commit_status"

\* The payload is empty, lacks the required nested object, or holds
\* something other than an object where the nested object belongs (the
\* rest of the payload being well-typed).
MalformedFor(body, event_type) ==
    \/ body = EmptyDict
    \/ /\ ObjectPayload(body)
       /\ \/ ~HasKey(body, RequiredObject(event_type))
          \/ Lookup(body, RequiredObject(event_type)).t # "obj"

MalformedOutcome ==
    /\ parse_bitbucket_event(locals.body, SentEventType) = Exc("ValueError")
    /\ Replied(400, "error", "Malformed event payload")
    /\ NothingPosted

\* C11 as stated: for an authenticated, filter-passing request with a
\* recognised discriminator whose payload is empty, lacks the required
\* nested object or holds a value of the wrong type there, the parser fails
\* with MalformedPayload and the handler answers 400 "Malformed event
\* payload" without posting.
C11_AsStated ==
    (pc = "done" /\ Called("parse_bitbucket_event") /\ ~Unsupported(SentEventType)
        /\ MalformedFor(locals.body, SentEventType))
    => MalformedOutcome

\* The part of C11 the parser does honour: an empty payload or an absent
\* nested object, under an object-valued (or absent) `repository`.
C11_MissingObject ==
    (pc = "done" /\ Called("parse_bitbucket_event") /\ ~Unsupported(SentEventType)
        /\ \/ locals.body = EmptyDict
           \/ ObjectPayload(locals.body)
              /\ ~HasKey(locals.body, RequiredObject(SentEventType)))
    => MalformedOutcome

(***************************************************************************)
(* C12..C14: the secret cache.                                             *)
(***************************************************************************)
\* How often the store was asked for secret_arn in this process lifetime.
StoreRequests(log, secret_arn) ==
    Cardinality({i \in 1..Len(log) : log[i] = secret_arn})

\* The step is a get_secret call for secret_arn.
GetSecretOf(secret_arn) ==
    /\ invocations' = invocations + 1
    /\ calls'[1] = Call("get_secret", secret_arn)

\* The store's reply to the latest call, when the store was contacted.
StoreContacted == Len(calls) = 3
LatestReply == calls[3].arg

\* C12 as stated: within one process lifetime the store's retrieval API is
\* called at most once per distinct secret identifier.
C12_AsStated ==
    \A secret_arn \in SecretIds : StoreRequests(store_log, secret_arn) <= 1

\* C12: within one process lifetime, once an identifier is cached (its
\* retrieval has succeeded) the store's retrieval API is never called for it
\* again; an identifier is cached only by a call that contacted the store.
C12_OncePerSuccess ==
    [][ColdStart \/
       \A secret_arn \in SecretIds :
         /\ MapHas(_cached_secrets, secret_arn)
              => StoreRequests(store_log', secret_arn) = StoreRequests(store_log, secret_arn)
         /\ (~MapHas(_cached_secrets, secret_arn) /\ MapHas(_cached_secrets', secret_arn))
              => StoreRequests(store_log', secret_arn)
                   = StoreRequests(store_log, secret_arn) + 1]_vars

\* C12 after a failed retrieval, a successful one and a call served from
\* the cache: the store was asked twice for the identifier, not three times.
C12_Witness ==
    /\ StoreRequests(store_log, BitbucketArn) = 2
    /\ MapHas(_cached_secrets, BitbucketArn)
    /\ calls = <<Call("get_secret", BitbucketArn)>>
    /\ response = MapGet(_cached_secrets, BitbucketArn)

\* C13: within one process lifetime a cached entry never changes, and a
\* get_secret call for a cached identifier returns the cached value without
\* contacting the store, whatever the store holds by then; a call for an
\* identifier that is not cached (as after a cold start) that succeeds
\* returns and caches the store's current value.
C13_CacheWins ==
    [][ColdStart \/
       \A secret_arn \in SecretIds :
         /\ MapHas(_cached_secrets, secret_arn)
              => /\ MapHas(_cached_secrets', secret_arn)
                 /\ MapGet(_cached_secrets', secret_arn) = MapGet(_cached_secrets, secret_arn)
                 /\ GetSecretOf(secret_arn)
                      => /\ response' = MapGet(_cached_secrets, secret_arn)
                         /\ calls' = <<Call("get_secret", secret_arn)>>
                         /\ store_log' = store_log
         /\ (~MapHas(_cached_secrets, secret_arn) /\ GetSecretOf(secret_arn)
               /\ ~IsExc(response'))
              => /\ response' = MapGet(store, secret_arn)
                 /\ MapHas(_cached_secrets', secret_arn)
                 /\ MapGet(_cached_secrets', secret_arn) = response']_vars

\* C13 after a rotation: the call is served the value cached before it.
C13_Witness ==
    /\ MapHas(_cached_secrets, BitbucketArn)
    /\ MapGet(_cached_secrets, BitbucketArn) = Str(SigningSecret)
    /\ MapGet(store, BitbucketArn) = Str(RotatedSecret)
    /\ calls = <<Call("get_secret", BitbucketArn)>>
    /\ response = Str(SigningSecret)

\* The rotated value is what a call returns after a cold start.
C13_AfterColdStart ==
    /\ MapGet(store, BitbucketArn) = Str(RotatedSecret)
    /\ store_log = <<BitbucketArn>>
    /\ invocations > 1
    /\ response = Str(RotatedSecret)

\* C14: a get_secret call that fails leaves the cache unchanged; an empty
\* identifier fails with ValueError without a store call; a store response
\* without SecretString fails with ValueError; an error raised by the store
\* is raised unchanged to the caller.
C14_FailureKeepsCache ==
    [][\A secret_arn \in SecretIds :
         GetSecretOf(secret_arn)
           => /\ IsExc(response') => _cached_secrets' = _cached_secrets
              /\ secret_arn = ""
                   => /\ response' = Exc("ValueError")
                      /\ ~StoreContacted'
                      /\ store_log' = store_log
              /\ (StoreContacted' /\ IsExc(LatestReply')) => response' = LatestReply'
              /\ (StoreContacted' /\ ~IsExc(LatestReply')
                    /\ LatestReply'.SecretString = None)
                   => response' = Exc("ValueError")]_vars

\* C14 with a transport error while another secret is cached.
C14_Witness ==
    /\ StoreContacted
    /\ LatestReply = Exc("EndpointConnectionError")
    /\ response = Exc("EndpointConnectionError")
    /\ MapHas(_cached_secrets, BitbucketArn)
    /\ ~MapHas(_cached_secrets, TeamsArn)

\* C14 for the empty identifier and for a secret without a string payload.
C14_EmptyIdentifier ==
    /\ calls = <<Call("get_secret", "")>>
    /\ response = Exc("ValueError")
    /\ _cached_secrets # {}

(***************************************************************************)
(* C15: validate_webhook_signature.                                        *)
(***************************************************************************)
Validated == pc = "returned" /\ request.fn = "validate_webhook_signature"

\* The value of the signature header of the call, or Absent.
SignatureHeader ==
    HdrGet(request.headers, "X-Hub-Signature",
           HdrGet(request.headers, "x-hub-signature", Absent))

Prefixed == SignatureHeader # Absent /\ StartsWith(SignatureHeader, <<"sha256=">>)

CorrectDigest == compute_signature(request.body, request.secret)

Fails(message) == ~response.is_valid /\ response.error_msg = message

\* What C15 says of success and of a header that is absent or unprefixed.
C15_SuccessAndMissing ==
    /\ response.is_valid \in BOOLEAN
    /\ response.is_valid
         <=> (Prefixed /\ Tail(SignatureHeader) = CorrectDigest /\ request.secret # <<>>)
    /\ response.is_valid => response.error_msg = "None"
    /\ ~Prefixed => Fails("Missing or invalid X-Hub-Signature header")

\* C15 as stated: success exactly for a prefixed header whose remainder is
\* the digest of body under a non-empty secret; "Missing or invalid
\* X-Hub-Signature header" for an absent or unprefixed header; "Invalid
\* signature" for any prefixed value that differs from the correct digest.
C15_AsStated ==
    Validated
    => /\ C15_SuccessAndMissing
       /\ (Prefixed /\ Tail(SignatureHeader) # CorrectDigest) => Fails("Invalid signature")

\* C15: as above, but "Invalid signature" is the message for a prefixed
\* value that differs from the correct digest only when that value is ASCII
\* or the secret is empty; a prefixed value that is not ASCII, under a
\* non-empty secret, fails with "Signature validation failed".
C15_Validate ==
    Validated
    => /\ C15_SuccessAndMissing
       /\ (Prefixed /\ Tail(SignatureHeader) # CorrectDigest
             /\ (IsAscii(Tail(SignatureHeader)) \/ request.secret = <<>>))
            => Fails("Invalid signature")
       /\ (Prefixed /\ ~IsAscii(Tail(SignatureHeader)) /\ request.secret # <<>>)
            => Fails("Signature validation failed")

\* C15 for a header signed with another key.
C15_Witness ==
    /\ Validated
    /\ Prefixed
    /\ Tail(SignatureHeader) = compute_signature(request.body, <<"wr0ng">>)
    /\ request.secret = SigningSecret
    /\ Fails("Invalid signature")

\* C15 accepting a correctly signed body.
C15_Accepted ==
    /\ Validated
    /\ Prefixed
    /\ Tail(SignatureHeader) = CorrectDigest
    /\ response.is_valid

(***************************************************************************)
(* C16: spelling of the header names.                                      *)
(***************************************************************************)
\* The spellings of a header name, and the value sent under any of them.
HeaderNames(field) == {c[field] : c \in HeaderCasings}
SentAnyCase(field) ==
    IF \E p \in SentHeaders : p[1] \in HeaderNames(field)
    THEN (CHOOSE p \in SentHeaders : p[1] \in HeaderNames(field))[2]
    ELSE <<>>

CorrectlySigned ==
    SentAnyCase("signature")
        = <<"sha256=">> \o compute_signature(RawBody, locals.webhook_secret.s)

\* C16 as stated: a correctly signed request is authenticated, and
\* classified by the event key it sent, whatever the letter case of the two
\* header names.
C16_AsStated ==
    (pc = "done" /\ Called("validate_webhook_signature") /\ CorrectlySigned)
    => /\ locals.is_valid
       /\ locals.event_type = SentAnyCase("event_key")

\* The part of C16 the handler honours: the names as Bitbucket spells them
\* and their all-lowercase forms.
C16_TwoSpellings ==
    (pc = "done" /\ Called("validate_webhook_signature") /\ CorrectlySigned
        /\ \A p \in SentHeaders : p[1] \in {"X-Event-Key", "X-Hub-Signature",
                                            "x-event-key", "x-hub-signature"})
    => /\ locals.is_valid
       /\ locals.event_type = SentAnyCase("event_key")

\* A lower-case request that was authenticated and classified.
C16_LowerCase ==
    /\ pc = "done"
    /\ \E p \in SentHeaders : p[1] = "x-hub-signature"
    /\ locals.is_valid
    /\ locals.event_type = <<"pullrequest", ":", "created">>
    /\ response.statusCode = 200

(***************************************************************************)
(* C17: the filter decision.                                               *)
(***************************************************************************)
Decided == pc = "returned" /\ request.fn = "should_process_event"

\* The upper-cased commit_status.state of a payload ('' when absent).
ReportedState(body) ==
    IF ~HasKey(body, "commit_status") THEN <<>>
    ELSE IF ~HasKey(Lookup(body, "commit_status"), "state") THEN <<>>
    ELSE UpperStr(Lookup(Lookup(body, "commit_status"), "state").s)

\* The payload is an object whose commit_status, when present, is an object
\* whose state, when present, is a string.
StateReadable(body) ==
    /\ body.t = "obj"
    /\ HasKey(body, "commit_status")
         => /\ Lookup(body, "commit_status").t = "obj"
            /\ HasKey(Lookup(body, "commit_status"), "state")
                 => Lookup(Lookup(body, "commit_status"), "state").t = "str"

ReferenceDecision(mode, listed, event_type, body) ==
    CASE mode = "all" -> TRUE
      [] mode = "deployments" ->
            \/ event_type \in { <<"repo", ":", "commit_status", "_updated">>,
                                <<"repo", ":", "commit_status", "_created">>,
                                <<"pullrequest", ":", "approved">>,
                                <<"pullrequest", ":", "unapproved">> }
            \/ Contains(event_type, "pipeline")
            \/ Contains(event_type, "commit_status")
      [] mode = "failures" ->
            \/ /\ Contains(event_type, "commit_status")
               /\ ReportedState(body) \in {<<"FAILED">>, <<"STOPPED">>, <<"ERROR">>}
            \/ event_type = <<"pullrequest", ":", "rejected">>
      [] OTHER -> \E i \in 1..Len(listed) : listed[i] = event_type

\* The decision reads the payload: `failures` mode on a commit-status event.
ReadsPayload ==
    request.filter_config.mode = "failures" /\ Contains(request.event_type, "commit_status")

C17_FailureState ==
    /\ Decided
    /\ ReadsPayload
    /\ ReportedState(request.event_data) = <<"ERROR">>
    /\ Lookup(Lookup(request.event_data, "commit_status"), "state") = Str(<<"error">>)
    /\ response = Bool(TRUE)

C17_EmptyList ==
    /\ Decided
    /\ request.filter_config = [mode |-> "explicit", event_types |-> <<>>]
    /\ request.event_type = <<"pullrequest", ":", "created">>
    /\ response = Bool(FALSE)

(***************************************************************************)
(* C18: post_to_teams.                                                     *)
(***************************************************************************)
Posted == pc = "returned" /\ request.fn = "post_to_teams"

NothingToPost == ~Truthy(request.adaptive_card) \/ ~Truthy(request.webhook_url)

Accepted == ~IsExc(request.http) /\ request.http.status \in {200, 202}

OnePost ==
    /\ Len(response.requests) = 1
    /\ response.requests[1].method = "POST"
    /\ response.requests[1].url = request.webhook_url
    /\ response.success <=> Accepted

NoPost == ~response.success /\ response.requests = <<>>

C18_Post ==
    Posted
    => /\ response.success \in BOOLEAN
       /\ (NothingToPost \/ IsExc(card_title(request.adaptive_card))) => NoPost
       /\ (~NothingToPost /\ ~IsExc(card_title(request.adaptive_card))) => OnePost

\* C18 for a card answered with 202.
C18_Witness ==
    /\ Posted
    /\ request.adaptive_card.t = "AdaptiveCard"
    /\ request.http = [t |-> "http", status |-> 202]
    /\ OnePost
    /\ response.success

\* C18 for a transport error, and for an empty payload.
C18_TransportError ==
    /\ Posted
    /\ IsExc(request.http)
    /\ Len(response.requests) = 1
    /\ ~response.success

C18_EmptyPayload ==
    /\ Posted
    /\ request.adaptive_card = EmptyDict
    /\ Truthy(request.webhook_url)
    /\ NoPost

(***************************************************************************)
(* C19: no retries within an invocation.                                   *)
(***************************************************************************)
StoreCallsFor(secret_arn) ==
    Cardinality({i \in 1..Len(calls) : calls[i] = Call("get_secret_value", secret_arn)})

\* C19: in any single handler invocation the chat client is invoked at most
\* once and issues at most one POST, and the secret store is called at most
\* once per identifier, whatever fails.
C19_NoRetry ==
    /\ CallCount("post_to_teams") <= 1
    /\ CallCount("http.request") <= 1
    /\ \A secret_arn \in {BitbucketArn, TeamsArn, ""} : StoreCallsFor(secret_arn) <= 1

\* C19 for a POST that failed: one request, then 500.
C19_Witness ==
    /\ pc = "done"
    /\ CallCount("http.request") = 1
    /\ ~locals.success
    /\ StoreCallsFor(BitbucketArn) + StoreCallsFor(TeamsArn) = 2
    /\ Replied(500, "error", "Failed to post to Teams")

\* C19 for a store that failed on the signing secret: one store call.
C19_StoreFailed ==
    /\ pc = "done"
    /\ locals.webhook_secret = None
    /\ StoreCallsFor(BitbucketArn) = 1
    /\ CallCount("get_secret") = 1
    /\ Replied(500, "error", "Server configuration error")

(***************************************************************************)
(* C20: get_event_color.                                                   *)
(***************************************************************************)
Colored == pc = "returned" /\ request.fn = "get_event_color"

TableColors == {"#DC3545", "#28A745", "#FFC107", "#0078D4", "#6264A7", "#6C757D"}
TextColors == {"Attention", "Good", "Warning", "Accent", "Default"}

RedActions == {<<"failed">>, <<"declined">>, <<"stopped">>, <<"rejected">>}
GreenActions == {<<"merged">>, <<"succeeded">>, <<"approved">>}

\* The state in the metadata as given ('' when absent).
GivenState ==
    IF "state" \in DOMAIN request.metadata THEN request.metadata.state.s ELSE <<>>

\* The colour of a commit status whose state reads `state`.
StateColor(state) ==
    IF state = <<"SUCCESSFUL">> THEN "#28A745"
    ELSE IF state \in {<<"FAILED">>, <<"STOPPED">>, <<"ERROR">>} THEN "#DC3545"
    ELSE "#FFC107"

ColorRules(state) ==
    /\ request.action \in RedActions => response = "#DC3545"
    /\ request.action \in GreenActions => response = "#28A745"
    /\ (request.action \notin RedActions \cup GreenActions
          /\ request.event_category = "commit_status")
         => response = StateColor(state)
    /\ response \in TableColors
    /\ _get_text_color_for_theme(response) \in TextColors

\* C20 as stated: the action decides before the category; otherwise a
\* commit status is coloured by whether its state is SUCCESSFUL, one of
\* FAILED, STOPPED, ERROR, or anything else; the result is a table colour
\* with a text-colour token.
C20_AsStated == Colored => ColorRules(GivenState)

\* C20: the action decides before the category; otherwise a commit status
\* is coloured by whether its state, upper-cased, is SUCCESSFUL, one of
\* FAILED, STOPPED, ERROR, or anything else; the result is a table colour
\* with a text-colour token.
C20_ActionFirst == Colored => ColorRules(UpperStr(GivenState))

\* C20 for a commit status whose action says merged and whose state says
\* FAILED: the action wins.
C20_Witness ==
    /\ Colored
    /\ request.event_category = "commit_status"
    /\ request.action = <<"merged">>
    /\ GivenState = <<"FAILED">>
    /\ response = "#28A745"

\* C20 for a commit status in progress.
C20_InProgress ==
    /\ Colored
    /\ request.event_category = "commit_status"
    /\ request.action = <<"inprogress">>
    /\ GivenState = <<"INPROGRESS">>
    /\ response = "#FFC107"

(***************************************************************************)
(* C21: an error that reaches the except clauses of lambda_handler is      *)
(* mapped by its kind. JSON-decode, ValueError, KeyError and TypeError     *)
(* give 400; connectivity and timeout errors, secret-store service errors  *)
(* and every other error give 500; the body always carries a non-empty     *)
(* `error` string.                                                         *)
(***************************************************************************)
Handled == pc = "returned" /\ request.fn = "lambda_handler.except"

ClientErrorKinds == {"JSONDecodeError", "ValueError", "KeyError", "TypeError"}

C21_MappedByKind ==
    Handled =>
        /\ response.statusCode = (IF request.exc.e \in ClientErrorKinds THEN 400 ELSE 500)
        /\ "error" \in DOMAIN Reply
        /\ Reply.error \in STRING
        /\ Reply.error # ""

C21_Witness ==
    /\ Handled
    /\ request.exc.e = "TypeError"
    /\ response.statusCode = 400

C21_Unclassified ==
    /\ Handled
    /\ request.exc.e = "AttributeError"
    /\ response.statusCode = 500

(***************************************************************************)
(* C23: the stages run once each in a fixed order.                         *)
(***************************************************************************)
\* The position in the pipeline of the stage that makes a call (the calls
\* of get_secret and of post_to_teams to their clients count with them).
StageOfCall(c) ==
    CASE c.fn \in {"get_secret", "get_secret_value"} ->
            IF c.arg = CONFIG.bitbucket_secret_arn THEN 1 ELSE 6
      [] c.fn = "validate_webhook_signature" -> 2
      [] c.fn = "should_process_event" -> 3
      [] c.fn = "parse_bitbucket_event" -> 4
      [] c.fn = "format_teams_message" -> 5
      [] c.fn \in {"post_to_teams", "http.request"} -> 7

LastStage == IF calls = <<>> THEN 0 ELSE StageOfCall(calls[Len(calls)])

\* The stages whose failure (or, for the last one, success) gives a reply.
DecidingStages ==
    IF "error" \in DOMAIN Reply
    THEN CASE Reply.error = "Invalid JSON payload" -> {0}
           [] Reply.error = "Unauthorized" -> {2}
           [] Reply.error = "Malformed event payload" -> {4}
           [] Reply.error = "Failed to format message" -> {5}
           [] Reply.error = "Failed to post to Teams" -> {7}
           [] Reply.error = "Server configuration error" -> {0, 1, 2, 6}
           [] OTHER -> {0, 3, 4, 5}
    ELSE CASE Reply.message = "Event filtered, not processed" -> {3}
           [] Reply.message = "Unsupported event type, not processed" -> {4}
           [] OTHER -> {7}

\* The filter rejects the event of the running invocation.
FilterRejects ==
    /\ locals.is_valid
    /\ FILTER_CONFIG # None
    /\ should_process(FILTER_CONFIG, SentEventType, locals.body) = Bool(FALSE)

\* C23: the components are called in the order signing secret, signature,
\* filter, parser, formatter, chat URL, chat post, none of them twice apart
\* from the second signature attempt; the reply is that of the last stage
\* that ran; and an event the filter rejects is answered 200 "Event
\* filtered" without reaching the parser, whatever its discriminator and
\* payload.
C23_Sequential ==
    /\ CONFIG # None =>
         /\ \A i, j \in 1..Len(calls) : i < j => StageOfCall(calls[i]) <= StageOfCall(calls[j])
         /\ \A fn \in {"should_process_event", "parse_bitbucket_event",
                       "format_teams_message", "post_to_teams", "http.request"} :
               CallCount(fn) <= 1
         /\ CallCount("get_secret") <= 2
         /\ CallCount("get_secret_value") <= CallCount("get_secret")
         /\ CallCount("validate_webhook_signature") <= 2
         /\ pc = "done" => LastStage \in DecidingStages
    /\ (pc = "done" /\ FilterRejects) =>
         /\ Replied(200, "message", "Event filtered, not processed")
         /\ LastStage = 3
         /\ ~Called("parse_bitbucket_event")

\* C23 for a rejected event whose discriminator the parser does not know.
C23_Witness ==
    /\ pc = "done"
    /\ FilterRejects
    /\ Unsupported(SentEventType)
    /\ SentEventType # <<>>
    /\ Replied(200, "message", "Event filtered, not processed")

\* C23 for a rejected event whose payload the parser would refuse.
C23_MalformedFiltered ==
    /\ pc = "done"
    /\ FilterRejects
    /\ ~Unsupported(SentEventType)
    /\ parse_bitbucket_event(locals.body, SentEventType) = Exc("ValueError")
    /\ Replied(200, "message", "Event filtered, not processed")

(***************************************************************************)
(* C24: the event-type metric.                                             *)
(***************************************************************************)
EventTypeMetrics ==
    Cardinality({i \in 1..Len(metrics) :
                    metrics[i].namespace = "BitbucketTeamsWebhook/EventTypes"})

\* C24 as stated: an invocation emits the event-type metric once if the
\* configuration is loaded and the request carries a non-empty event-type
\* discriminator, and never otherwise.
C24_AsStated ==
    pc = "done" =>
        EventTypeMetrics = (IF CONFIG # None /\ SentAnyCase("event_key") # <<>>
                            THEN 1 ELSE 0)

\* What the handler does: the metric is emitted once, for the discriminator
\* found under `X-Event-Key` or `x-event-key`, when the configuration is
\* loaded and the body text has been obtained, whether or not the body is
\* JSON and the signature valid; and never otherwise.
C24_BeforeParsing ==
    /\ EventTypeMetrics <= 1
    /\ pc = "done" =>
         (EventTypeMetrics = 1) =
            (/\ CONFIG # None
             /\ locals.body_str # None
             /\ SentEventType # <<>>)
    /\ EventTypeMetrics = 1 =>
         \E i \in 1..Len(metrics) : metrics[i] = emit_event_type_metric(SentEventType)

\* The metric next to a 401.
C24_Unauthorized ==
    /\ pc = "done"
    /\ EventTypeMetrics = 1
    /\ Replied(401, "error", "Unauthorized")

(***************************************************************************)
(* C26: the four outcome metrics.                                          *)
(***************************************************************************)
OutcomeMetrics ==
    {<<"SignatureVerificationFailures">>, <<"UnsupportedEventTypes">>,
     <<"TeamsAPIFailures">>, <<"ProcessingDuration">>}

OutcomeMetricCount ==
    Cardinality({i \in 1..Len(metrics) : metrics[i].name \in OutcomeMetrics})

\* C26: an invocation emits at most one of the four outcome metrics, and a
\* finished invocation has emitted SignatureVerificationFailures iff it
\* answers 401 Unauthorized, UnsupportedEventTypes iff 200 "Unsupported
\* event type", TeamsAPIFailures iff 500 "Failed to post to Teams" and
\* ProcessingDuration iff the 200 success; every other reply comes with
\* none of them.
C26_OutcomeMetrics ==
    /\ OutcomeMetricCount <= 1
    /\ pc = "done" =>
         /\ (MetricCount(<<"SignatureVerificationFailures">>) = 1)
               = Replied(401, "error", "Unauthorized")
         /\ (MetricCount(<<"UnsupportedEventTypes">>) = 1)
               = Replied(200, "message", "Unsupported event type, not processed")
         /\ (MetricCount(<<"TeamsAPIFailures">>) = 1)
               = Replied(500, "error", "Failed to post to Teams")
         /\ (MetricCount(<<"ProcessingDuration">>) = 1)
               = Replied(200, "message", "Webhook processed and posted to Teams successfully")

\* C26 for a failed chat post.
C26_Witness ==
    /\ pc = "done"
    /\ Replied(500, "error", "Failed to post to Teams")
    /\ MetricCount(<<"TeamsAPIFailures">>) = 1
    /\ OutcomeMetricCount = 1

\* C26 for a rejected event: a reply without an outcome metric.
C26_Filtered ==
    /\ pc = "done"
    /\ Replied(200, "message", "Event filtered, not processed")
    /\ OutcomeMetricCount = 0

(***************************************************************************)
(* C27: Configuration and FilterConfig after cold start.                   *)
(***************************************************************************)
BothOrNeither == (CONFIG = None) = (FILTER_CONFIG = None)

\* The "filter configuration not loaded" reply of the Filter stage.
FilterNotLoaded == pc = "filter" /\ FILTER_CONFIG = None

ConfigurationKept == CONFIG' = CONFIG /\ FILTER_CONFIG' = FILTER_CONFIG

\* C27: after cold start Configuration and FilterConfig are both loaded or
\* both absent, no step of the process changes either, and no invocation
\* reaches the Filter stage with the FilterConfig absent.
C27_LoadedTogether ==
    /\ [](BothOrNeither /\ ~FilterNotLoaded)
    /\ [][ConfigurationKept]_vars

\* C27 for a second invocation at the Filter stage of a configured process.
C27_Witness ==
    /\ pc = "filter"
    /\ invocations = 2
    /\ CONFIG # None
    /\ FILTER_CONFIG # None

\* C27 for a process whose configuration failed to load.
C27_NeitherLoaded ==
    /\ pc = "done"
    /\ CONFIG = None
    /\ FILTER_CONFIG = None

(***************************************************************************)
(* C28: which invocations ask for which secret.                            *)
(***************************************************************************)
\* The chat URL identifier is in the cache or was asked of the store.
ChatUrlKnown ==
    \/ MapHas(_cached_secrets, CONFIG.teams_webhook_url_secret_arn)
    \/ \E i \in 1..Len(store_log) : store_log[i] = CONFIG.teams_webhook_url_secret_arn

\* The running invocation was authenticated, admitted by the filter, parsed
\* and formatted.
ReadyToPost ==
    /\ locals.is_valid
    /\ Called("should_process_event")
    /\ locals.parsed_event # None
    /\ locals.teams_message # None

\* A step leaves the chat URL identifier unretrieved and uncached unless it
\* is taken by an invocation that is ready to post.
ChatUrlOnlyWhenReady ==
    (CONFIG # None /\ ~ChatUrlKnown /\ ChatUrlKnown') => ReadyToPost

SecretsByStage ==
    CONFIG # None =>
        /\ SecretRequested(CONFIG.teams_webhook_url_secret_arn) => ReadyToPost
        /\ (pc = "done" /\ locals.body # None)
              => SecretRequested(CONFIG.bitbucket_secret_arn)
        /\ SecretRequested(CONFIG.bitbucket_secret_arn) => locals.body # None

\* C28: the chat URL secret is requested only by an invocation that has
\* passed signature verification, filter, parser and formatter, and it
\* enters the cache and the store's log only in a step of such an
\* invocation, so requests that are not correctly signed never cause it to
\* be retrieved or cached; the signing secret is requested by every
\* invocation with loaded configuration and a JSON-decodable body.
C28_ChatUrlAfterChecks ==
    /\ []SecretsByStage
    /\ [][ChatUrlOnlyWhenReady]_vars

\* C28 for a second rejected request in a process that has never seen a
\* valid signature: the signing secret is cached, the chat URL is not.
C28_Witness ==
    /\ pc = "done"
    /\ invocations = 2
    /\ Replied(401, "error", "Unauthorized")
    /\ SecretRequested(CONFIG.bitbucket_secret_arn)
    /\ MapHas(_cached_secrets, CONFIG.bitbucket_secret_arn)
    /\ ~ChatUrlKnown

\* C28 for an invocation that retrieved the chat URL.
C28_Retrieved ==
    /\ pc = "post"
    /\ ReadyToPost
    /\ ChatUrlKnown

(***************************************************************************)
(* C30: filter, parser and color rule on failure events.                   *)
(***************************************************************************)
FailurePath == pc = "returned" /\ request.fn = "filter_parse_format"

CommitStatusTypes ==
    {<<"repo", ":", "commit_status", "_updated">>, <<"repo", ":", "commit_status", "_created">>}

\* The event was admitted by the filter and parsed.
AdmittedAndParsed ==
    /\ FailurePath
    /\ response.decision = Bool(TRUE)
    /\ response.parsed_event.t = "ParsedEvent"

\* The payloads of the model that are well-formed for a discriminator.
WellFormedFor(event_type) ==
    IF event_type \in CommitStatusTypes THEN WellFormedFailures \ {WellFormedPullRequest}
    ELSE IF StartsWith(event_type, <<"pullrequest", ":">>) THEN {WellFormedPullRequest}
    ELSE {}

Formatted == response.teams_message.t = "AdaptiveCard"

ThemeColor ==
    get_event_color(response.parsed_event.event_category, response.parsed_event.action,
                    response.parsed_event.metadata)

\* C30: under filter mode `failures`, a commit-status event (either
\* discriminator) that the filter admits has state FAILED, STOPPED or ERROR
\* in some letter case and, once parsed, is colored #DC3545 with text color
\* Attention on its card; an admitted `pullrequest:rejected` event is parsed
\* to action `declined` and colored the same; a well-formed payload of
\* either kind is parsed and formatted.
C30_FailuresAgree ==
    /\ (FailurePath /\ response.decision = Bool(TRUE)
           /\ request.event_data \in WellFormedFor(request.event_type))
       => response.parsed_event.t = "ParsedEvent" /\ Formatted
    /\ (AdmittedAndParsed /\ request.event_type \in CommitStatusTypes)
       => /\ response.parsed_event.event_category = "commit_status"
          /\ response.parsed_event.metadata.state.s \in FailureStates
          /\ ThemeColor = "#DC3545"
          /\ Formatted => response.teams_message.color = "Attention"
    /\ (AdmittedAndParsed /\ request.event_type = <<"pullrequest", ":", "rejected">>)
       => /\ response.parsed_event.action = <<"declined">>
          /\ ThemeColor = "#DC3545"
          /\ Formatted => response.teams_message.color = "Attention"

\* C30 for a commit status whose state is spelled `Error`.
C30_Witness ==
    /\ AdmittedAndParsed
    /\ request.event_type = <<"repo", ":", "commit_status", "_created">>
    /\ Lookup(Lookup(request.event_data, "commit_status"), "state") = Str(<<"Error">>)
    /\ ThemeColor = "#DC3545"

\* C30 for a declined pull request.
C30_Declined ==
    /\ AdmittedAndParsed
    /\ request.event_type = <<"pullrequest", ":", "rejected">>
    /\ response.parsed_event.action = <<"declined">>
    /\ response.teams_message.color = "Attention"

(***************************************************************************)
(* C25: get_secret calls that interleave.                                  *)
(***************************************************************************)
AllReturned == \A t \in Threads : pc[t] = "returned"

Succeeded(t) == pc[t] = "returned" /\ ~IsExc(response[t])

\* How often the store was asked for an identifier.
StoreRequestsFor(secret_arn) ==
    Cardinality({i \in 1..Len(store_log) : store_log[i] = secret_arn})

\* Every thread asked for the same identifier, found it uncached, asked the
\* store and got its value.
Interleaved ==
    /\ AllReturned
    /\ \A t \in Threads : request[t] = request[1] /\ Succeeded(t)
    /\ StoreRequestsFor(request[1]) = MaxThreads

\* Calls that interleave return what the store holds and leave the cache
\* that one call leaves.
BenignRace ==
    /\ \A t \in Threads : Succeeded(t) => response[t] = MapGet(store, request[t])
    /\ AllReturned =>
         _cached_secrets = {<<request[t], response[t]>> : t \in {u \in Threads : Succeeded(u)}}
    /\ Interleaved =>
         LET single == get_secret(request[1], {}, store, "none")
         IN  /\ \A t \in Threads : response[t] = single.result
             /\ _cached_secrets = single.cache

CacheOnlyWritten ==
    /\ CONFIG' = CONFIG
    /\ FILTER_CONFIG' = FILTER_CONFIG
    /\ _secrets_client' = _secrets_client

CacheAndClientWritten ==
    /\ CONFIG' = CONFIG
    /\ FILTER_CONFIG' = FILTER_CONFIG
    /\ _secrets_client' # _secrets_client
          => _secrets_client = None /\ _secrets_client' = SecretsManagerClient

\* C25 as stated: get_secret calls for one uncached identifier that
\* interleave both return the store's value and leave the cache of a single
\* call, and the secret cache is the only module-level state that request
\* handling writes.
C25_AsStated ==
    /\ []BenignRace
    /\ [][CacheOnlyWritten]_vars

\* C25: get_secret calls for one uncached identifier that interleave both
\* return the store's value and leave the cache of a single call; request
\* handling writes the secret cache and, on the first cache miss, the
\* module-level store client, and never Configuration or FilterConfig.
C25_BenignRace ==
    /\ []BenignRace
    /\ [][CacheAndClientWritten]_vars

\* C25 for two calls that both missed the cache and both asked the store.
C25_Witness ==
    /\ Interleaved
    /\ request[1] = BitbucketArn
    /\ _cached_secrets = {<<BitbucketArn, Str(SigningSecret)>>}
    /\ _secrets_client # None

\* The same write set, for the steps of the handler.
C25_HandlerWrites == [][CacheAndClientWritten]_vars

(***************************************************************************)
(* C22, C29: what a response depends on.                                   *)
(***************************************************************************)
\* The decoded body of a journal entry's response, without the duration.
BodyOf(entry) == json_loads(entry.response.body)

SansDuration(body) == [k \in DOMAIN body \ {"processing_duration_ms"} |-> body[k]]

SameReply(a, b) ==
    /\ a.response # None
    /\ b.response # None
    /\ a.response.statusCode = b.response.statusCode
    /\ SansDuration(BodyOf(a)) = SansDuration(BodyOf(b))

\* Two invocations were given the same event and context, the store
\* answered every fetch, and the chat endpoint, where both posted, answered
\* alike.
SameInputs(a, b) ==
    /\ a.request = b.request
    /\ a.request_id = b.request_id
    /\ ~a.store_failed
    /\ ~b.store_failed
    /\ (a.chat = None \/ b.chat = None \/ a.chat = b.chat)

\* The stores of two invocations hold the same signing secret and
\* different, non-empty chat webhook URLs.
DifferInChatUrl(a, b) ==
    /\ MapGet(a.store, BitbucketArn) = MapGet(b.store, BitbucketArn)
    /\ MapGet(a.store, TeamsArn) # MapGet(b.store, TeamsArn)
    /\ Truthy(MapGet(a.store, TeamsArn))
    /\ Truthy(MapGet(b.store, TeamsArn))

\* The fields of a response body and where the request-dependent ones come
\* from.
PublicFields(entry) ==
    entry.response # None =>
        /\ DOMAIN BodyOf(entry) \subseteq
              {"message", "error", "event_type", "event_category", "repository",
               "request_id", "processing_duration_ms"}
        /\ "event_type" \in DOMAIN BodyOf(entry) => BodyOf(entry).event_type = entry.event_type
        /\ "request_id" \in DOMAIN BodyOf(entry) => BodyOf(entry).request_id = entry.request_id
        /\ "processing_duration_ms" \in DOMAIN BodyOf(entry)
              => BodyOf(entry).processing_duration_ms \in Durations

\* C22: a response body holds fixed texts, the event type and request id
\* the caller sent, the category and repository parsed from the payload and
\* the duration, and two invocations that differ only in the value of the
\* chat webhook URL secret return the same status and the same body apart
\* from the duration.
C22_NoSecretInResponse ==
    /\ \A a \in journal : PublicFields(a)
    /\ \A a, b \in journal :
          (SameInputs(a, b) /\ DifferInChatUrl(a, b)) => SameReply(a, b)

\* C22 for two deliveries of one pull request to different chat URLs.
C22_Witness ==
    \E a, b \in journal :
        /\ SameInputs(a, b)
        /\ DifferInChatUrl(a, b)
        /\ a.chat = Bool(TRUE)
        /\ b.chat = Bool(TRUE)
        /\ a.posts # b.posts
        /\ a.response.statusCode = 200

\* The secrets an invocation worked with are those that get_secret returns
\* when it has nothing cached.
AsFromStore(entry) ==
    /\ entry.webhook_secret \in {None, get_secret(BitbucketArn, {}, entry.store, "none").result}
    /\ entry.teams_url \in {None, get_secret(TeamsArn, {}, entry.store, "none").result}

\* C29: in a process whose store answers every fetch and keeps its values,
\* an invocation answers and posts the same whether its secrets come from
\* the cache or from the store, so what it answers does not depend on the
\* invocations before it.
C29_CacheTransparent ==
    /\ \A a \in journal : ~a.store_failed => AsFromStore(a)
    /\ \A a, b \in journal :
          (SameInputs(a, b) /\ a.store = b.store)
          => /\ SameReply(a, b)
             /\ (a.chat = b.chat) => a.posts = b.posts

\* C29 for one event delivered to a fresh process, which fetches both
\* secrets, and to a process that has the signing secret cached only.
C29_Witness ==
    \E a, b \in journal :
        /\ SameInputs(a, b)
        /\ a.store = b.store
        /\ a.fetched = {BitbucketArn, TeamsArn}
        /\ b.fetched = {TeamsArn}
        /\ a.chat = Bool(TRUE)
        /\ b.chat = Bool(TRUE)

\* C29 for one event delivered twice to one process: the second delivery
\* fetches nothing.
C29_Warm ==
    \E a, b \in journal :
        /\ SameInputs(a, b)
        /\ a.store = b.store
        /\ a.fetched = {BitbucketArn, TeamsArn}
        /\ b.fetched = {}
        /\ a.chat = Bool(FALSE)
        /\ b.chat = Bool(FALSE)

====
